---- MODULE Spec2Model ----
(***************************************************************************)
(* Model of the matching subsystem of skill-sync-backend: the scoring      *)
(* engine (app/services/matching_engine.py), the pre-computer              *)
(* (app/services/batch_matching_service.py), the vector store accessors    *)
(* (app/services/rag_engine.py) and the routes that change postings,       *)
(* users, resumes and applications (app/routes/*.py).                      *)
(*                                                                         *)
(* Scores are Python floats rounded to two decimals; the model keeps them  *)
(* as integers in hundredths of a point (10000 = 100.00).  Years of        *)
(* experience are kept in tenths of a year.                                *)
(***************************************************************************)
EXTENDS Integers, Sequences, FiniteSets, TLC

(***************************************************************************)
(* Bounds of the model.                                                    *)
(***************************************************************************)
MaxResumes == 3
\* The number of requests that change users, postings, resumes or vectors
MaxOps == 3

(***************************************************************************)
(* Values standing for Python's None and for a raised ValueError.          *)
(***************************************************************************)
\* An Optional[List[float]] is None or List(v) for a sequence v.
None == [none |-> TRUE]
List(v) == [list |-> v]
ValueError == [error |-> "ValueError"]

(***************************************************************************)
(* Arithmetic helpers.                                                     *)
(***************************************************************************)
\* round(n / d, 0) for d > 0, half rounded up (floor division of 2n + d by 2d).
RoundDiv(n, d) == (2 * n + d) \div (2 * d)

\* The integer square root (floor); exact on the perfect squares the model uses.
ISqrt(n) == CHOOSE r \in 0..n : r * r <= n /\ (r + 1) * (r + 1) > n

RECURSIVE SumSeq(_)
SumSeq(s) == IF s = <<>> THEN 0 ELSE Head(s) + SumSeq(Tail(s))

Min(a, b) == IF a <= b THEN a ELSE b

(***************************************************************************)
(* Strings are sequences of characters, so that Python's `a in b` on str   *)
(* is the substring test it is.                                            *)
(***************************************************************************)
IsSubstring(a, b) ==
    \E i \in 0..(Len(b) - Len(a)) : SubSeq(b, i + 1, i + Len(a)) = a

UpperLower == [A |-> "a", J |-> "j", N |-> "n", P |-> "p", S |-> "s", Y |-> "y"]

LowerChar(c) == IF c \in DOMAIN UpperLower THEN UpperLower[c] ELSE c

\* str.lower()
Lower(s) == [i \in 1..Len(s) |-> LowerChar(s[i])]

\* str.strip(): drops leading and trailing blanks
RECURSIVE LStrip(_)
LStrip(s) == IF s /= <<>> /\ Head(s) = " " THEN LStrip(Tail(s)) ELSE s

RECURSIVE RStrip(_)
RStrip(s) ==
    IF s /= <<>> /\ s[Len(s)] = " " THEN RStrip(SubSeq(s, 1, Len(s) - 1)) ELSE s

Strip(s) == RStrip(LStrip(s))

\* [s.lower().strip() for s in skills]
NormalizeSkills(skills) == [i \in 1..Len(skills) |-> Strip(Lower(skills[i]))]

(***************************************************************************)
(* MatchingEngine: weights in hundredths.                                  *)
(***************************************************************************)
WeightSkills == 45
WeightExperience == 25
WeightSemantic == 10
WeightEducation == 10
WeightProjects == 10

\* np.dot(vec1, vec2)
Dot(v1, v2) == SumSeq([i \in 1..Min(Len(v1), Len(v2)) |-> v1[i] * v2[i]])

\* np.linalg.norm(vec)
Norm(v) == ISqrt(Dot(v, v))

\* A cosine similarity that answers one half where a vector is None, empty or
\* zero
CosineSimilarityFallback(vec1, vec2) ==
    IF vec1 = None \/ vec2 = None
    THEN [num |-> 1, den |-> 2]
    ELSE IF Len(vec1.list) = 0 \/ Len(vec2.list) = 0
         THEN [num |-> 1, den |-> 2]
         ELSE IF Norm(vec1.list) = 0 \/ Norm(vec2.list) = 0
              THEN [num |-> 1, den |-> 2]
              ELSE [num |-> Dot(vec1.list, vec2.list),
                    den |-> Norm(vec1.list) * Norm(vec2.list)]

\* MatchingEngine._calculate_cosine_similarity: ValueError when a vector is
\* None, empty or zero; otherwise the fraction dot / (norm1 * norm2).
CosineSimilarity(vec1, vec2) ==
    IF vec1 = None \/ vec2 = None
    THEN ValueError
    ELSE IF Len(vec1.list) = 0 \/ Len(vec2.list) = 0
         THEN ValueError
         ELSE IF Norm(vec1.list) = 0 \/ Norm(vec2.list) = 0
              THEN ValueError
              ELSE [num |-> Dot(vec1.list, vec2.list),
                    den |-> Norm(vec1.list) * Norm(vec2.list)]

\* any(skill in cand_skill or cand_skill in skill for cand_skill in candidate)
SkillMatches(skill, cand) ==
    \E i \in 1..Len(cand) : IsSubstring(skill, cand[i]) \/ IsSubstring(cand[i], skill)

CountMatched(skills, cand) ==
    Cardinality({i \in 1..Len(skills) : SkillMatches(skills[i], cand)})

\* MatchingEngine._calculate_skills_match, as the fraction num / den of a point
SkillsMatch(candidate_skills, required_skills, preferred_skills) ==
    IF required_skills = <<>>
    THEN [num |-> 100, den |-> 1]
    ELSE LET cand == NormalizeSkills(candidate_skills)
             req == NormalizeSkills(required_skills)
             pref == NormalizeSkills(preferred_skills)
             mr == CountMatched(req, cand)
             mp == CountMatched(pref, cand)
         IN IF pref /= <<>>
            THEN [num |-> 70 * mr * Len(pref) + 30 * mp * Len(req),
                  den |-> Len(req) * Len(pref)]
            ELSE [num |-> 70 * mr + 30 * Len(req), den |-> Len(req)]

\* MatchingEngine._calculate_experience_match (years in tenths)
ExperienceMatch(candidate_exp, min_exp, max_exp) ==
    IF candidate_exp >= min_exp /\ candidate_exp <= max_exp
    THEN 100
    ELSE IF candidate_exp < min_exp
         THEN LET gap == min_exp - candidate_exp
              IN IF gap <= 5 THEN 90
                 ELSE IF gap <= 10 THEN 70
                 ELSE IF gap <= 20 THEN 50
                 ELSE 30
         ELSE 85

\* education_hierarchy, in the dict's iteration order
EducationKeys ==
    << "phd", "doctorate", "master", "mba", "bachelor", "diploma", "certificate" >>

EducationLevel ==
    [phd |-> 5, doctorate |-> 5, master |-> 4, mba |-> 4, bachelor |-> 3,
     diploma |-> 2, certificate |-> 1]

\* A degree or requirement string is kept as the set of hierarchy keys that
\* occur in its lowercased text; the empty requirement string is {} too.
RequiredLevel(required) ==
    IF \E i \in 1..Len(EducationKeys) : EducationKeys[i] \in required
    THEN LET first == CHOOSE i \in 1..Len(EducationKeys) :
                         /\ EducationKeys[i] \in required
                         /\ \A j \in 1..(i - 1) : EducationKeys[j] \notin required
         IN EducationLevel[EducationKeys[first]]
    ELSE 0

CandidateLevel(education) ==
    LET levels == {0} \cup {EducationLevel[k] : k \in UNION {education[i] : i \in 1..Len(education)}}
    IN CHOOSE m \in levels : \A l \in levels : l <= m

\* MatchingEngine._calculate_education_match; has_req is the truthiness of the
\* requirement string
EducationMatch(education, has_req, required) ==
    IF ~has_req \/ education = <<>>
    THEN 70
    ELSE IF CandidateLevel(education) >= RequiredLevel(required) THEN 100
         ELSE IF CandidateLevel(education) = RequiredLevel(required) - 1 THEN 80
         ELSE 50

\* MatchingEngine._calculate_additional_credentials
AdditionalCredentials(projects, certifications) ==
    LET p == IF projects >= 5 THEN 60 ELSE projects * 12
        c == IF certifications >= 4 THEN 40 ELSE certifications * 10
    IN Min(p + c, 100)

\* MatchingEngine.calculate_match_score: ValueError, or the rounded overall
\* score and component scores, in hundredths of a point.
CalculateMatchScore(cand, intern, cvec, ivec) ==
    LET cos == CosineSimilarity(cvec, ivec)
    IN IF cos = ValueError
       THEN ValueError
       ELSE LET sk == SkillsMatch(cand.all_skills, intern.required_skills,
                                  intern.preferred_skills)
                ex == ExperienceMatch(cand.total_experience_years,
                                      intern.min_experience, intern.max_experience)
                ed == EducationMatch(cand.education, intern.has_required_education,
                                     intern.required_education)
                pc == AdditionalCredentials(cand.projects, cand.certifications)
                rest == WeightExperience * ex + WeightEducation * ed + WeightProjects * pc
            IN [overall_score |->
                    RoundDiv(WeightSkills * sk.num * cos.den
                               + rest * sk.den * cos.den
                               + WeightSemantic * 100 * cos.num * sk.den,
                             sk.den * cos.den),
                semantic_similarity |-> RoundDiv(100 * 100 * cos.num, cos.den),
                skills_match |-> RoundDiv(100 * sk.num, sk.den),
                experience_match |-> 100 * ex]

(***************************************************************************)
(* The universe of the model.                                              *)
(***************************************************************************)
Students == {1, 2}
Postings == {1, 2}
Runs == {"r1", "r2"}

\* Skill strings
Py == <<"P", "y">>
Node == <<"n", "o", "d", "e">>
NodeJs == <<"N", "o", "d", "e", ".", "j", "s">>
Sql == <<"s", "q", "l">>

\* Resume documents: the structured record the extraction yields for the text,
\* and the vector the embedding model yields for it.
ResumeDocs ==
    { [parsed_data |-> [all_skills |-> <<Py, Node>>, total_experience_years |-> 20,
                        education |-> <<{"bachelor"}>>, projects |-> 2,
                        certifications |-> 1,
                        personal_info |-> [education |-> <<{"bachelor"}>>]],
       vec |-> <<3, 4>>],
      [parsed_data |-> [all_skills |-> <<>>, total_experience_years |-> 0,
                        education |-> <<>>, projects |-> 0, certifications |-> 0,
                        personal_info |-> [education |-> <<>>]],
       vec |-> <<-1, 0>>] }

\* Posting forms (InternshipCreate) and the vector of their text.
PostingForms ==
    { [required_skills |-> <<Py, NodeJs, Sql>>, preferred_skills |-> <<>>,
       vec |-> <<1, 0>>],
      [required_skills |-> <<Sql>>, preferred_skills |-> <<Py>>,
       vec |-> <<0, 1>>],
      [required_skills |-> <<>>, preferred_skills |-> <<>>,
       vec |-> <<0, 0>>] }

VARIABLES
    users,                  \* users table, students only: id -> row
    internships,            \* internships table: id -> row
    resumes,                \* resumes table: id -> row
    resume_collection,      \* vector store, resumes: resume id -> vector
    internship_collection,  \* vector store, postings: posting id -> vector
    matches,                \* student_internship_matches table: set of rows
    runs,                   \* the pre-compute runs in progress
    hist,                   \* history: what the last completed full run left
    ops,                    \* history: the number of requests so far, the
                            \* steps of the pre-computer and of apply apart
    applications,           \* applications table: sequence of rows, by id
    requests,               \* the apply requests: where each is, its response
    ranking,                \* the last response of the ranking
    gateway,                \* the Gemini key manager and its call in progress
    parsed,                 \* the last result of the resume intelligence service
    admins                  \* the administrators and their delete requests

vars == <<users, internships, resumes, resume_collection, internship_collection,
          matches, runs, hist, ops, applications, requests, ranking, gateway,
          parsed, admins>>

applyVars == <<applications, requests, ranking, gateway, parsed, admins>>

(***************************************************************************)
(* Vector store accessors (RAGEngine).                                     *)
(***************************************************************************)
\* RAGEngine.get_resume_embedding
GetResumeEmbedding(coll, resume_id) ==
    IF resume_id \in DOMAIN coll THEN List(coll[resume_id]) ELSE None

\* RAGEngine.get_internship_embedding
GetInternshipEmbedding(coll, internship_id) ==
    IF internship_id \in DOMAIN coll THEN List(coll[internship_id]) ELSE None

\* collection.add(ids=[id]): an id already in the collection keeps its entry
CollectionAdd(coll, id, vec) ==
    IF id \in DOMAIN coll THEN coll
    ELSE [k \in DOMAIN coll \cup {id} |-> IF k = id THEN vec ELSE coll[k]]

\* collection.delete(ids=[id])
CollectionDelete(coll, id) == [k \in DOMAIN coll \ {id} |-> coll[k]]

(***************************************************************************)
(* BatchMatchingService._calculate_match: the row to insert, or ValueError.*)
(***************************************************************************)
EmptyCandidate ==
    [all_skills |-> <<>>, total_experience_years |-> 0, education |-> <<>>,
     projects |-> 0, certifications |-> 0]

\* resume.parsed_data.get(...) if resume.parsed_data else default
CandidateData(resume) ==
    IF resume.parsed_data = None THEN EmptyCandidate ELSE resume.parsed_data.dict

\* `x or default` on a nullable numeric column: NULL and 0 both give the default
OrDefault(x, default) == IF x = None \/ x = [num |-> 0] THEN default ELSE x.num

InternshipData(internship) ==
    [required_skills |-> internship.required_skills,
     preferred_skills |-> internship.preferred_skills,
     min_experience |-> OrDefault(internship.min_experience, 0),
     max_experience |-> OrDefault(internship.max_experience, 100),
     has_required_education |-> internship.required_education /= None,
     required_education |->
         IF internship.required_education = None THEN {}
         ELSE internship.required_education.keys]

\* `embedding = get(...); if embedding is None: embedding = []`
OrEmpty(e) == IF e = None THEN List(<<>>) ELSE e

CalculateMatch(rid, pid, rs, ins, rcoll, icoll) ==
    LET res == CalculateMatchScore(CandidateData(rs[rid]), InternshipData(ins[pid]),
                                   OrEmpty(GetResumeEmbedding(rcoll, rid)),
                                   OrEmpty(GetInternshipEmbedding(icoll, pid)))
    IN IF res = ValueError
       THEN ValueError
       ELSE [student_id |-> rs[rid].student_id,
             internship_id |-> pid,
             resume_id |-> rid,
             base_similarity_score |-> res.overall_score,
             semantic_similarity |-> res.semantic_similarity,
             skills_match_score |-> res.skills_match,
             experience_match_score |-> res.experience_match]

(***************************************************************************)
(* Helpers on tables.                                                      *)
(***************************************************************************)
\* The ids of a set in ascending order, as query results are walked.
RECURSIVE SortedSeq(_)
SortedSeq(S) ==
    IF S = {} THEN <<>>
    ELSE LET m == CHOOSE a \in S : \A b \in S : a <= b
         IN <<m>> \o SortedSeq(S \ {m})

SeqToSet(q) == {q[k] : k \in 1..Len(q)}

MatchKey(row) == <<row.student_id, row.internship_id>>

\* The resumes a schema-level reading calls the candidate's active base resumes
ActiveBase(rs, s) ==
    {rid \in DOMAIN rs :
        rs[rid].student_id = s /\ rs[rid].is_active = 1 /\ rs[rid].is_tailored = 0}

\* Resume rows of the student with is_active = 1, tailored or not
ActiveResumes(rs, s) ==
    {rid \in DOMAIN rs : rs[rid].student_id = s /\ rs[rid].is_active = 1}

\* The attributes of the mapped class Resume (app/models/resume.py)
ResumeAttributes ==
    {"id", "resume_id", "student_id", "file_path", "s3_key", "file_name",
     "parsed_content", "parsed_data", "extracted_skills", "embedding_id",
     "is_tailored", "tailored_for_internship_id", "base_resume_id",
     "content_hash", "is_active", "uploaded_at", "created_at", "updated_at",
     "student"}

NoHist == [clean |-> FALSE, base |-> {}]

NoRanking == [status |-> "none"]

NoResult == [status |-> "none"]

\* The administrators of the users table
AdminIds == {"a1", "a2", "a3"}

\* A delete request of an administrator that has not been sent
IdleDelete == [pc |-> "idle", worker |-> "none", user_id |-> "none",
               status |-> "none"]

SeedAdmins == [ids |-> AdminIds, call |-> [a \in AdminIds |-> IdleDelete]]

\* The threads of the process that call the key manager
Callers == {"c1", "c2"}

\* A caller that has made no call yet
IdleCall ==
    [pc |-> "idle", purpose |-> "", max_retries |-> 0, keys_to_try |-> <<>>,
     attempt |-> 0, k |-> 0, client |-> "", error |-> "",
     \* history of the invocation: the keys tried in each round, the keys that
     \* passed their test, the keys it marked failed, its last attempt
     tried |-> <<>>, passed |-> {}, marked |-> {}, last |-> "", last_key |-> ""]

\* GeminiKeyManager.__init__: no failed key, no client, no call made yet
IdleGateway ==
    [failed_keys |-> {}, clients |-> {}, call |-> [c \in Callers |-> IdleCall],
     \* history of the process: the keys that answered with an invalid key
     \* error; the keys marked for a rate limit and not tried since; the keys
     \* tried again after such a mark
     invalid |-> {}, waiting |-> {}, retried |-> {}]

IdleRun ==
    [pc |-> "idle", force |-> FALSE, student_ids |-> {}, internship_ids |-> {},
     students |-> <<>>, internships |-> <<>>, i |-> 0, rerun |-> FALSE,
     since |-> 0]

Running(r) == runs[r].pc = "loop"

Requests == {"a1", "a2"}

IdleRequest ==
    [pc |-> "idle", student_id |-> 0, internship_id |-> 0, resume_id |-> 0,
     response |-> "none"]

\* A request that changes an input of the pre-computer: it is counted, and the
\* table is no longer what the last full run left for these inputs.
Changed == ops < MaxOps /\ ops' = ops + 1 /\ hist' = NoHist

(***************************************************************************)
(* The state after the database has been set up and seeded: one student    *)
(* with an uploaded resume, one student without, one posting.              *)
(***************************************************************************)
SeedDoc ==
    CHOOSE d \in ResumeDocs : d.vec = <<3, 4>>

SeedForm ==
    CHOOSE f \in PostingForms : f.vec = <<1, 0>>

\* The phone numbers the two students registered with
SeedPhones == <<<<"9", "-", "8">>, <<"9", "8">>>>

\* The row of a registered student who gave a phone number only
SeedUser(phone) ==
    [is_active |-> 1, phone |-> [text |-> phone], linkedin_url |-> None,
     github_url |-> None]

Init ==
    /\ users = [s \in Students |-> SeedUser(SeedPhones[s])]
    /\ internships =
         [p \in {1} |->
            [is_active |-> 1,
             required_skills |-> SeedForm.required_skills,
             preferred_skills |-> SeedForm.preferred_skills,
             min_experience |-> [num |-> 0],
             max_experience |-> [num |-> 100],
             required_education |-> None]]
    /\ resumes =
         [rid \in {1} |->
            [student_id |-> 1, is_active |-> 1, is_tailored |-> 0,
             parsed_data |-> [dict |-> SeedDoc.parsed_data],
             embedding_id |-> [ref |-> 1]]]
    /\ resume_collection = [rid \in {1} |-> SeedDoc.vec]
    /\ internship_collection = [p \in {1} |-> SeedForm.vec]
    /\ matches = {}
    /\ runs = [r \in Runs |-> IdleRun]
    /\ hist = NoHist
    /\ ops = 0
    /\ applications = <<>>
    /\ requests = [q \in Requests |-> IdleRequest]
    /\ ranking = NoRanking
    /\ gateway = IdleGateway
    /\ parsed = NoResult
    /\ admins = SeedAdmins

(***************************************************************************)
(* Posting routes (app/routes/internship.py).                              *)
(***************************************************************************)
\* post_internship: the row is committed with the column defaults for the
\* experience band and the education requirement, then the vector is stored.
PostInternship(form) ==
    /\ DOMAIN internships /= Postings
    /\ LET id == Cardinality(DOMAIN internships) + 1
           row == [is_active |-> 1,
                   required_skills |-> form.required_skills,
                   preferred_skills |-> form.preferred_skills,
                   min_experience |-> [num |-> 0],
                   max_experience |-> [num |-> 100],
                   required_education |-> None]
       IN /\ internships' =
               [p \in DOMAIN internships \cup {id} |->
                   IF p = id THEN row ELSE internships[p]]
          /\ internship_collection' = CollectionAdd(internship_collection, id, form.vec)
    /\ Changed
    /\ UNCHANGED <<users, resumes, resume_collection, matches, runs, applyVars>>

\* update_internship: the skills are replaced and committed, then the vector
\* is stored again under the same id.
UpdateInternship(p, form) ==
    /\ p \in DOMAIN internships
    /\ internships[p].required_skills /= form.required_skills
    /\ internships' =
         [internships EXCEPT ![p].required_skills = form.required_skills,
                             ![p].preferred_skills = form.preferred_skills]
    /\ internship_collection' = CollectionAdd(internship_collection, p, form.vec)
    /\ Changed
    /\ UNCHANGED <<users, resumes, resume_collection, matches, runs, applyVars>>

\* delete_internship: soft delete, then the vector is deleted.
DeleteInternship(p) ==
    /\ p \in DOMAIN internships
    /\ internships[p].is_active = 1
    /\ internships' = [internships EXCEPT ![p].is_active = 0]
    /\ internship_collection' = CollectionDelete(internship_collection, p)
    /\ Changed
    /\ UNCHANGED <<users, resumes, resume_collection, matches, runs, applyVars>>

(***************************************************************************)
(* User routes (app/routes/auth.py).                                       *)
(***************************************************************************)
\* update_user with is_active given, by an admin, on a student
UpdateUser(s, is_active) ==
    /\ s \in DOMAIN users
    /\ users[s].is_active /= is_active
    /\ users' = [users EXCEPT ![s].is_active = is_active]
    /\ Changed
    /\ UNCHANGED <<internships, resumes, resume_collection, internship_collection,
                   matches, runs, applyVars>>

(***************************************************************************)
(* Resume upload.  ResumeService.upload_and_process_resume is called by    *)
(* parse_and_extract_resume with is_tailored=False, deactivate_others=True;*)
(* the service itself is modelled from the specification: one transaction  *)
(* deactivates the prior active base rows and inserts the new one, and the *)
(* vector is upserted under the new resume's id.                           *)
(***************************************************************************)
UploadAndProcessResume(rs, s, doc, is_tailored, deactivate_others) ==
    LET id == Cardinality(DOMAIN rs) + 1
    IN [rid \in DOMAIN rs \cup {id} |->
          IF rid = id
          THEN [student_id |-> s, is_active |-> 1,
                is_tailored |-> IF is_tailored THEN 1 ELSE 0,
                parsed_data |-> [dict |-> doc.parsed_data],
                embedding_id |-> [ref |-> id]]
          ELSE IF deactivate_others /\ rid \in ActiveBase(rs, s)
               THEN [rs[rid] EXCEPT !.is_active = 0]
               ELSE rs[rid]]

\* The upload route calling the service with deactivate_others=False
UploadResumeKeepOthers(s, doc) ==
    /\ Cardinality(DOMAIN resumes) < MaxResumes
    /\ resumes' = UploadAndProcessResume(resumes, s, doc, FALSE, FALSE)
    /\ resume_collection' =
         CollectionAdd(resume_collection, Cardinality(DOMAIN resumes) + 1, doc.vec)
    /\ Changed
    /\ UNCHANGED <<users, internships, internship_collection, matches, runs, applyVars>>

\* parse_and_extract_resume: is_tailored=False, deactivate_others=True
UploadResume(s, doc) ==
    /\ Cardinality(DOMAIN resumes) < MaxResumes
    /\ resumes' = UploadAndProcessResume(resumes, s, doc, FALSE, TRUE)
    /\ resume_collection' =
         CollectionAdd(resume_collection, Cardinality(DOMAIN resumes) + 1, doc.vec)
    /\ Changed
    /\ UNCHANGED <<users, internships, internship_collection, matches, runs, applyVars>>

(***************************************************************************)
(* Admin routes (app/routes/admin.py).                                     *)
(***************************************************************************)
\* reindex_all_student_resumes, for one resume file: in one transaction the
\* student's active resumes are deactivated and a Resume is constructed with
\* the keywords below; a keyword that is no attribute of the mapped class
\* raises, and the transaction is rolled back.
ReindexStudentResume(s, doc) ==
    LET keywords == {"student_id", "file_name", "file_path", "parsed_data",
                     "embedding", "is_active"}
        id == Cardinality(DOMAIN resumes) + 1
    IN IF keywords \subseteq ResumeAttributes
       THEN /\ Cardinality(DOMAIN resumes) < MaxResumes
            /\ resumes' =
                 [rid \in DOMAIN resumes \cup {id} |->
                    IF rid = id
                    THEN [student_id |-> s, is_active |-> 1, is_tailored |-> 0,
                          parsed_data |-> [dict |-> doc.parsed_data],
                          embedding_id |-> [ref |-> id]]
                    ELSE IF rid \in ActiveResumes(resumes, s)
                         THEN [resumes[rid] EXCEPT !.is_active = 0]
                         ELSE resumes[rid]]
            /\ resume_collection' = CollectionAdd(resume_collection, id, doc.vec)
            /\ Changed
            /\ UNCHANGED <<users, internships, internship_collection, matches,
                           runs, applyVars>>
       ELSE UNCHANGED vars

\* A clearing of the vectors and of the match rows that leaves embedding_id
\* as it is
ClearVectorsKeepRefs ==
    /\ resume_collection /= << >> \/ matches /= {}
    /\ resume_collection' = << >>
    /\ matches' = {}
    /\ Changed
    /\ UNCHANGED <<users, internships, resumes, internship_collection, runs, applyVars>>

\* clear_chromadb_embeddings: every resume vector is deleted, embedding_id is
\* nulled on the resumes that had one, every match row is deleted.
ClearChromadbEmbeddings ==
    /\ resume_collection /= << >> \/ matches /= {}
    /\ resume_collection' = << >>
    /\ resumes' = [rid \in DOMAIN resumes |-> [resumes[rid] EXCEPT !.embedding_id = None]]
    /\ matches' = {}
    /\ Changed
    /\ UNCHANGED <<users, internships, internship_collection, runs, applyVars>>

(***************************************************************************)
(* The pre-computer (BatchMatchingService.compute_all_matches).            *)
(***************************************************************************)
\* Step 1: students joined with their resumes having is_active = 1, as the
\* resume ids in ascending order
StudentsWithResumes(student_ids) ==
    SortedSeq({rid \in DOMAIN resumes :
                  /\ resumes[rid].student_id \in Students
                  /\ resumes[rid].is_active = 1
                  /\ (student_ids /= {} => resumes[rid].student_id \in student_ids)})

\* Step 2: internships with is_active = 1
ActiveInternships(internship_ids) ==
    SortedSeq({p \in DOMAIN internships :
                  /\ internships[p].is_active = 1
                  /\ (internship_ids /= {} => p \in internship_ids)})

\* Step 3: the rows the force_recompute delete removes
DeletedByForce(student_ids, internship_ids) ==
    {m \in matches :
        /\ (student_ids /= {} => m.student_id \in student_ids)
        /\ (internship_ids /= {} => m.internship_id \in internship_ids)}

\* The lines between the queries and the loop: the early return when there is
\* nothing to process, and the delete of force_recompute
EarlyReturn(students, ins) == students = <<>> \/ ins = <<>>

\* bulk_insert_mappings + commit under the unique index on
\* (student_id, internship_id): the batch is inserted whole, or the insert
\* raises IntegrityError and nothing of the batch is kept.
BulkInsert(table, rows) ==
    IF \E m \in rows, e \in table : MatchKey(e) = MatchKey(m)
    THEN [ok |-> FALSE, table |-> table]
    ELSE [ok |-> TRUE, table |-> table \cup rows]

\* A full run starts as a re-run when the last completed full run left the
\* table as it is now, nothing has changed since that run began and no other
\* run is going on.
ComputeBegin(r, force, student_ids, internship_ids) ==
    /\ ~Running(r)
    /\ LET students == StudentsWithResumes(student_ids)
           ins == ActiveInternships(internship_ids)
           full == student_ids = {} /\ internship_ids = {}
           alone == \A o \in Runs \ {r} : ~Running(o)
           rerun == full /\ alone /\ hist.clean
       IN IF EarlyReturn(students, ins)
          THEN /\ runs' = [runs EXCEPT ![r] =
                     [IdleRun EXCEPT !.pc = "done", !.rerun = rerun]]
               /\ matches' = matches
               /\ hist' = IF rerun THEN hist
                          ELSE IF full /\ alone
                               THEN [clean |-> TRUE, base |-> matches]
                               ELSE NoHist
          ELSE /\ runs' = [runs EXCEPT ![r] =
                     [IdleRun EXCEPT !.pc = "loop", !.force = force,
                                     !.student_ids = student_ids,
                                     !.internship_ids = internship_ids,
                                     !.students = students, !.internships = ins,
                                     !.i = 1, !.rerun = rerun, !.since = ops]]
               /\ matches' = IF force
                             THEN matches \ DeletedByForce(student_ids, internship_ids)
                             ELSE matches
               /\ hist' = IF rerun THEN hist ELSE NoHist
    /\ UNCHANGED <<users, internships, resumes, resume_collection,
                   internship_collection, ops, applyVars>>

\* compute_all_matches(force_recompute=force)
ComputeAll(r, force) == ComputeBegin(r, force, {}, {})

\* compute_matches_for_student(student_id)
ComputeMatchesForStudent(r, s) == ComputeBegin(r, TRUE, {s}, {})

\* compute_matches_for_internship(internship_id)
ComputeMatchesForInternship(r, p) == ComputeBegin(r, TRUE, {}, {p})

\* The roles of users (UserRole)
Roles == {"student", "company", "admin"}

\* compute_batch_similarity_matches, called by an authenticated user of the
\* given role: the dependency get_current_user accepts every role and the
\* handler does not read it.  An id that is not given is None.
ComputeBatchSimilarityMatches(r, role, force_recompute, student_id, internship_id) ==
    IF student_id /= None
    THEN ComputeMatchesForStudent(r, student_id.num)
    ELSE IF internship_id /= None
         THEN ComputeMatchesForInternship(r, internship_id.num)
         ELSE ComputeAll(r, force_recompute)

\* The results of _calculate_match for one resume against the run's postings
PairResults(r) ==
    LET rid == runs[r].students[runs[r].i]
    IN [p \in SeqToSet(runs[r].internships) |->
          CalculateMatch(rid, p, resumes, internships, resume_collection,
                         internship_collection)]

\* One pass of the outer loop: every posting is tried for the student, a
\* raised exception is counted and skipped, and the student's rows are
\* inserted in one batch.  An exception of the insert leaves the loop and
\* the call.  When the call ends, by its return ("done") or by the exception
\* ("aborted"), its locals are gone.
ComputeStudent(r) ==
    /\ Running(r)
    /\ LET res == PairResults(r)
           rows == {res[p] : p \in DOMAIN res} \ {ValueError}
           ins == IF rows = {} THEN [ok |-> TRUE, table |-> matches]
                  ELSE BulkInsert(matches, rows)
           last == runs[r].i = Len(runs[r].students)
           full == runs[r].student_ids = {} /\ runs[r].internship_ids = {}
           alone == \A o \in Runs \ {r} : ~Running(o)
       IN /\ matches' = ins.table
          /\ runs' = [runs EXCEPT ![r] =
                 IF ~ins.ok
                 THEN [IdleRun EXCEPT !.pc = "aborted", !.rerun = runs[r].rerun]
                 ELSE IF last
                 THEN [IdleRun EXCEPT !.pc = "done", !.rerun = runs[r].rerun]
                 ELSE [@ EXCEPT !.i = @ + 1]]
          /\ hist' = IF runs[r].rerun THEN hist
                     ELSE IF ins.ok /\ last /\ full /\ alone /\ runs[r].since = ops
                          THEN [clean |-> TRUE, base |-> ins.table]
                          ELSE NoHist
    /\ UNCHANGED <<users, internships, resumes, resume_collection,
                   internship_collection, ops, applyVars>>

(***************************************************************************)
(* Applying to a posting (apply_to_internship in app/routes/internship.py).*)
(* The handler is a coroutine: it runs without interruption up to its only *)
(* await, the processing of a tailored resume, and from there to its end.  *)
(***************************************************************************)
\* Checks that answer a missing resume as they answer a missing posting
ApplyChecksResumeAsPosting(s, p) ==
    IF ~(p \in DOMAIN internships /\ internships[p].is_active = 1)
       \/ ActiveResumes(resumes, s) = {}
    THEN "InternshipNotFound"
    ELSE IF \E k \in DOMAIN applications :
               /\ applications[k].student_id = s
               /\ applications[k].internship_id = p
    THEN "AlreadyApplied"
    ELSE "ok"

\* The checks before the try block, in their order
ApplyChecks(s, p) ==
    IF ~(p \in DOMAIN internships /\ internships[p].is_active = 1)
    THEN "InternshipNotFound"
    ELSE IF ActiveResumes(resumes, s) = {}
    THEN "NoActiveResume"
    ELSE IF \E k \in DOMAIN applications :
               /\ applications[k].student_id = s
               /\ applications[k].internship_id = p
    THEN "AlreadyApplied"
    ELSE "ok"

\* int(x) of a score kept in hundredths: truncation towards zero
IntOfScore(x) == IF x >= 0 THEN x \div 100 ELSE -((-x) \div 100)

\* The try block from the candidate data to the insert.  The attribute
\* `embedding` is read from the resume row; a row that has no such attribute
\* raises, and so does the scoring of a missing vector; every exception is
\* rolled back and answered with status 500.
ApplyScoreAndInsert(s, p, rid, used_tailored, rs, apps) ==
    IF "embedding" \notin ResumeAttributes
    THEN [response |-> "Error500", applications |-> apps]
    ELSE LET res == CalculateMatchScore(
                        CandidateData(rs[rid]), InternshipData(internships[p]),
                        IF rs[rid].embedding = None THEN List(<<>>)
                        ELSE rs[rid].embedding,
                        GetInternshipEmbedding(internship_collection, p))
         IN IF res = ValueError
            THEN [response |-> "Error500", applications |-> apps]
            ELSE [response |-> "Created",
                  applications |-> Append(apps,
                      [student_id |-> s, internship_id |-> p, resume_id |-> rid,
                       application_similarity_score |-> IntOfScore(res.overall_score),
                       used_tailored_resume |-> IF used_tailored THEN 1 ELSE 0])]

\* The request up to its first answer or to the await.  `resume` is the row
\* the unordered .first() returns.
ApplyToInternship(q, s, p, use_tailored_resume) ==
    /\ requests[q].pc = "idle"
    /\ LET check == ApplyChecks(s, p)
       IN IF check /= "ok"
          THEN /\ requests' = [requests EXCEPT ![q] =
                     [pc |-> "done", student_id |-> s, internship_id |-> p,
                      resume_id |-> 0, response |-> check]]
               /\ UNCHANGED applications
          ELSE \E resume \in ActiveResumes(resumes, s) :
                 IF use_tailored_resume
                 THEN /\ requests' = [requests EXCEPT ![q] =
                            [pc |-> "await", student_id |-> s, internship_id |-> p,
                             resume_id |-> resume, response |-> "none"]]
                      /\ UNCHANGED applications
                 ELSE LET out == ApplyScoreAndInsert(s, p, resume, FALSE,
                                                     resumes, applications)
                      IN /\ applications' = out.applications
                         /\ requests' = [requests EXCEPT ![q] =
                               [pc |-> "done", student_id |-> s,
                                internship_id |-> p, resume_id |-> resume,
                                response |-> out.response]]
    /\ UNCHANGED <<users, internships, resumes, resume_collection,
                   internship_collection, matches, runs, hist, ops, ranking, gateway,
                   parsed, admins>>

\* The tailored resume has been processed (is_tailored=True,
\* deactivate_others=False): the request goes on with the tailored row.
ApplyWithTailored(q, doc) ==
    /\ requests[q].pc = "await"
    /\ Cardinality(DOMAIN resumes) < MaxResumes
    /\ LET s == requests[q].student_id
           p == requests[q].internship_id
           id == Cardinality(DOMAIN resumes) + 1
           rs == UploadAndProcessResume(resumes, s, doc, TRUE, FALSE)
           out == ApplyScoreAndInsert(s, p, id, TRUE, rs, applications)
       IN /\ resumes' = rs
          /\ resume_collection' = CollectionAdd(resume_collection, id, doc.vec)
          /\ applications' = out.applications
          /\ requests' = [requests EXCEPT ![q].pc = "done", ![q].resume_id = id,
                                          ![q].response = out.response]
    /\ UNCHANGED <<users, internships, internship_collection, matches, runs,
                   hist, ops, ranking, gateway, parsed, admins>>

\* The processing of the tailored resume raised: the request goes on with
\* the base resume it read before the await.
ApplyFallback(q) ==
    /\ requests[q].pc = "await"
    /\ LET s == requests[q].student_id
           p == requests[q].internship_id
           out == ApplyScoreAndInsert(s, p, requests[q].resume_id, FALSE,
                                      resumes, applications)
       IN /\ applications' = out.applications
          /\ requests' = [requests EXCEPT ![q].pc = "done",
                                          ![q].response = out.response]
    /\ UNCHANGED <<users, internships, resumes, resume_collection,
                   internship_collection, matches, runs, hist, ops, ranking, gateway,
                   parsed, admins>>

(***************************************************************************)
(* Duplicate detection (CandidateFlaggingService).  Of the three contact   *)
(* fields only the phone is kept; no student has a LinkedIn or GitHub URL. *)
(***************************************************************************)
Digits == {"0", "1", "2", "3", "4", "5", "6", "7", "8", "9"}

IsDigit(c) == c \in Digits

\* normalize_phone: the digits of the text, None for no text or no digit.
\* A column that holds a text holds [text |-> characters].
NormalizePhone(phone) ==
    IF phone = None
    THEN None
    ELSE IF SelectSeq(phone.text, IsDigit) = <<>> THEN None
         ELSE [text |-> SelectSeq(phone.text, IsDigit)]

\* re.sub(r'^https?://', '', url)
DropProtocol(url) ==
    LET http == <<"h", "t", "t", "p", ":", "/", "/">>
        https == <<"h", "t", "t", "p", "s", ":", "/", "/">>
    IN IF Len(url) >= Len(https) /\ SubSeq(url, 1, Len(https)) = https
       THEN SubSeq(url, Len(https) + 1, Len(url))
       ELSE IF Len(url) >= Len(http) /\ SubSeq(url, 1, Len(http)) = http
            THEN SubSeq(url, Len(http) + 1, Len(url))
            ELSE url

\* re.sub(r'^www\.', '', url)
DropWww(url) ==
    LET www == <<"w", "w", "w", ".">>
    IN IF Len(url) >= Len(www) /\ SubSeq(url, 1, Len(www)) = www
       THEN SubSeq(url, Len(www) + 1, Len(url))
       ELSE url

\* url.rstrip('/')
RECURSIVE RStripSlash(_)
RStripSlash(url) ==
    IF url /= <<>> /\ url[Len(url)] = "/"
    THEN RStripSlash(SubSeq(url, 1, Len(url) - 1))
    ELSE url

\* normalize_url: None for no text
NormalizeUrl(url) ==
    IF url = None
    THEN None
    ELSE IF url.text = <<>> THEN None
         ELSE [text |-> RStripSlash(DropWww(DropProtocol(Lower(Strip(url.text)))))]

\* The duplicate dimensions, in the order detect_flagged_candidates checks them
FlagReasons == <<"same_mobile", "same_linkedin", "same_github">>

\* The key under which a student is entered in the map of a dimension, None
\* if the student is not entered: the field is empty or normalizes to nothing
ContactKey(reason, user) ==
    LET key == IF reason = "same_mobile" THEN NormalizePhone(user.phone)
               ELSE IF reason = "same_linkedin" THEN NormalizeUrl(user.linkedin_url)
               ELSE NormalizeUrl(user.github_url)
    IN IF key = None THEN None ELSE IF key.text = <<>> THEN None ELSE key

\* The detector without the restriction to students with a resume
DetectFlaggedAllStudents ==
    LET same(reason, s) ==
            {o \in DOMAIN users \ {s} :
                ContactKey(reason, users[o]) = ContactKey(reason, users[s])}
        reasons_of(s) ==
            LET Duplicate(reason) ==
                    /\ ContactKey(reason, users[s]) /= None
                    /\ same(reason, s) /= {}
            IN SelectSeq(FlagReasons, Duplicate)
        flagged == {s \in DOMAIN users : reasons_of(s) /= <<>>}
    IN [s \in flagged |->
          [reasons |-> reasons_of(s),
           flagged_with |->
               [reason \in {reasons_of(s)[i] : i \in DOMAIN reasons_of(s)} |->
                   same(reason, s)]]]

\* detect_flagged_candidates: among the students having a resume with
\* is_active = 1, those entered in a map under a key that another such student
\* has, with the reasons and, for each reason, the others under the same key
DetectFlaggedCandidates ==
    LET with_resumes == {s \in DOMAIN users : ActiveResumes(resumes, s) /= {}}
        same(reason, s) ==
            {o \in with_resumes \ {s} :
                ContactKey(reason, users[o]) = ContactKey(reason, users[s])}
        reasons_of(s) ==
            LET Duplicate(reason) ==
                    /\ ContactKey(reason, users[s]) /= None
                    /\ same(reason, s) /= {}
            IN SelectSeq(FlagReasons, Duplicate)
        flagged == {s \in with_resumes : reasons_of(s) /= <<>>}
    IN [s \in flagged |->
          [reasons |-> reasons_of(s),
           flagged_with |->
               [reason \in {reasons_of(s)[i] : i \in DOMAIN reasons_of(s)} |->
                   same(reason, s)]]]

\* get_flag_info_for_candidates
GetFlagInfoForCandidates(candidate_ids) ==
    [s \in candidate_ids \cap DOMAIN DetectFlaggedCandidates |->
        DetectFlaggedCandidates[s]]

(***************************************************************************)
(* Ranking (rank_candidates_for_internship in intelligent_filtering.py).   *)
(* Scores are in hundredths of a point, years in tenths; a parameter that  *)
(* is not given is None.  Every posting belongs to the calling company.    *)
(***************************************************************************)
DefaultLimit == 50

NoFilters ==
    [only_applicants |-> FALSE, limit |-> DefaultLimit,
     min_match_score |-> None, max_match_score |-> None,
     min_experience |-> None, max_experience |-> None,
     filter_skills |-> None, education_level |-> None,
     exclude_flagged |-> FALSE]

\* The parameter sets the ranking is called with
RankQueries ==
    { NoFilters,
      [NoFilters EXCEPT !.only_applicants = TRUE],
      [NoFilters EXCEPT !.limit = 1, !.max_match_score = [num |-> 5000]],
      [NoFilters EXCEPT !.limit = 1, !.min_experience = [num |-> 10]],
      [NoFilters EXCEPT !.min_match_score = [num |-> 5000],
                        !.max_experience = [num |-> 50]],
      [NoFilters EXCEPT !.filter_skills = [list |-> << <<" ", "P", "Y">> >>],
                        !.education_level =
                            [text |-> <<"B", "a", "c", "h", "e", "l", "o", "r">>]],
      [NoFilters EXCEPT !.exclude_flagged = TRUE],
      [NoFilters EXCEPT !.only_applicants = TRUE, !.limit = 1,
                        !.exclude_flagged = TRUE] }

\* Every order of the rows of S
Orders(S) ==
    {q \in [1..Cardinality(S) -> S] : \A a \in S : \E k \in DOMAIN q : q[k] = a}

\* order_by(score.desc()) and sort(key=score, reverse=True): every order of
\* the rows in which the scores do not increase; rows of equal score come in
\* the order the database returned them, which is any order
OrderedByScoreDesc(S, score) ==
    {q \in Orders(S) : \A k \in 1..(Len(q) - 1) : q[k][score] >= q[k + 1][score]}

\* seq[:n]
Take(seq, n) == SubSeq(seq, 1, Min(n, Len(seq)))

\* The skills of the tailored resume, then those of the base resume, without
\* the ones seen before in lowercase
RECURSIVE MergeSkills(_, _)
MergeSkills(skills, seen) ==
    IF skills = <<>> THEN <<>>
    ELSE IF Lower(Head(skills)) \in seen
         THEN MergeSkills(Tail(skills), seen)
         ELSE <<Head(skills)>>
                \o MergeSkills(Tail(skills), seen \cup {Lower(Head(skills))})

\* resume.parsed_data.get('personal_info', {}) if resume.parsed_data else {}
PersonalInfo(resume) ==
    IF resume.parsed_data = None THEN [education |-> <<>>]
    ELSE resume.parsed_data.dict.personal_info

\* The row of a candidate in non-applicant mode, from the match row and the
\* resume it was computed for
DiscoveryCandidate(m) ==
    [student_id |-> m.student_id,
     resume_id |-> m.resume_id,
     personal_info |-> PersonalInfo(resumes[m.resume_id]),
     skills |-> CandidateData(resumes[m.resume_id]).all_skills,
     total_experience_years |->
         CandidateData(resumes[m.resume_id]).total_experience_years,
     match_score |-> m.base_similarity_score,
     has_tailored |-> FALSE]

\* The pre-computed match row of (student, posting): .first() on the unique key
BaseMatch(s, p) ==
    IF \E m \in matches : MatchKey(m) = <<s, p>>
    THEN CHOOSE m \in matches : MatchKey(m) = <<s, p>>
    ELSE None

\* The weighted combination of the tailored score and the base score
Blend(tailored_score, base_score) ==
    RoundDiv(8 * tailored_score + 2 * base_score, 10)

\* The tailored_data of the dual scoring: the keys all_skills,
\* total_experience_years, education and certifications; the scoring engine
\* reads the key it does not find, projects, as the empty list
TailoredData(resume) == [CandidateData(resume) EXCEPT !.projects = 0]

\* final_score of one application: the score, or ValueError
FinalScore(app, p) ==
    LET tailored_resume == resumes[app.resume_id]
        base_match == BaseMatch(app.student_id, p)
        base_only == IF base_match /= None
                     THEN [score |-> base_match.base_similarity_score,
                           has_tailored |-> FALSE]
                     ELSE ValueError
        tailored_embedding ==
            OrEmpty(GetResumeEmbedding(resume_collection, tailored_resume.embedding_id.ref))
        internship_embedding ==
            OrEmpty(GetInternshipEmbedding(internship_collection, p))
        res == CalculateMatchScore(TailoredData(tailored_resume),
                                   InternshipData(internships[p]),
                                   tailored_embedding, internship_embedding)
    IN IF tailored_resume.is_tailored = 1 /\ tailored_resume.embedding_id /= None
       THEN IF Len(tailored_embedding.list) = 0
            THEN base_only
            ELSE IF res = ValueError
                 THEN ValueError
                 ELSE IF base_match /= None
                      THEN [score |-> Blend(res.overall_score,
                                            base_match.base_similarity_score),
                            has_tailored |-> TRUE]
                      ELSE [score |-> res.overall_score, has_tailored |-> TRUE]
       ELSE base_only

\* The row of an applicant, for a final score that is no error
ApplicantCandidate(app, p) ==
    LET tailored_resume == resumes[app.resume_id]
        base == ActiveBase(resumes, app.student_id)
        base_resume == CHOOSE rid \in base : TRUE
        tailored_skills == CandidateData(tailored_resume).all_skills
        base_skills == IF base = {} THEN <<>>
                       ELSE CandidateData(resumes[base_resume]).all_skills
        exp == CandidateData(tailored_resume).total_experience_years
    IN [student_id |-> app.student_id,
        resume_id |-> app.resume_id,
        personal_info |-> PersonalInfo(tailored_resume),
        skills |-> MergeSkills(tailored_skills \o base_skills, {}),
        total_experience_years |->
            IF exp = 0 /\ base /= {} /\ resumes[base_resume].parsed_data /= None
            THEN CandidateData(resumes[base_resume]).total_experience_years
            ELSE exp,
        match_score |-> FinalScore(app, p).score,
        has_tailored |-> FinalScore(app, p).has_tailored]

\* The levels of the education filter
FilterEducationHierarchy ==
    [bachelor |-> 1, master |-> 2, phd |-> 3, doctorate |-> 3]

\* get_highest_education: a degree is kept as the set of level names that
\* occur in its lowercased text
GetHighestEducation(c) ==
    LET levels == {0} \cup
            {FilterEducationHierarchy[k] :
                k \in UNION {c.personal_info.education[i] :
                                i \in 1..Len(c.personal_info.education)}}
    IN CHOOSE m \in levels : \A l \in levels : l <= m

\* education_hierarchy.get(education_level.lower(), 0)
MinLevel(education_level) ==
    IF Lower(education_level) = <<"b", "a", "c", "h", "e", "l", "o", "r">>
    THEN FilterEducationHierarchy.bachelor
    ELSE 0

\* The scalar filters, in their order: match score, experience, skills,
\* education.  filter_skills is the list filter_skills.split(',') gives.
PassesFilters(c, query) ==
    /\ query.min_match_score /= None => c.match_score >= query.min_match_score.num
    /\ query.max_match_score /= None => c.match_score <= query.max_match_score.num
    /\ query.min_experience /= None
          => c.total_experience_years >= query.min_experience.num
    /\ query.max_experience /= None
          => c.total_experience_years <= query.max_experience.num
    /\ query.filter_skills /= None
          => \A i \in 1..Len(query.filter_skills.list) :
                \E j \in 1..Len(c.skills) :
                    IsSubstring(Lower(Strip(query.filter_skills.list[i])),
                                Lower(c.skills[j]))
    /\ query.education_level /= None
          => GetHighestEducation(c) >= MinLevel(query.education_level.text)

ApplyFilters(cands, query) ==
    LET Keep(c) == PassesFilters(c, query)
    IN SelectSeq(cands, Keep)

\* The flag state is written on every row that passed the filters
AddFlagInfo(cands) ==
    LET flag_info == GetFlagInfoForCandidates({cands[k].student_id : k \in DOMAIN cands})
    IN [k \in DOMAIN cands |->
          [student_id |-> cands[k].student_id,
           resume_id |-> cands[k].resume_id,
           personal_info |-> cands[k].personal_info,
           skills |-> cands[k].skills,
           total_experience_years |-> cands[k].total_experience_years,
           match_score |-> cands[k].match_score,
           has_tailored |-> cands[k].has_tailored,
           is_flagged |-> cands[k].student_id \in DOMAIN flag_info]]

ExcludeFlagged(cands, exclude_flagged) ==
    LET NotFlagged(c) == ~c.is_flagged
    IN IF exclude_flagged THEN SelectSeq(cands, NotFlagged) ELSE cands

\* From the ranked rows to the response: filters, flag state, exclusion of the
\* flagged, limit
Respond(p, query, ranked_candidates) ==
    [status |-> "ok", internship_id |-> p, query |-> query,
     total_before_filter |-> Len(ranked_candidates),
     ranked_candidates |->
         Take(ExcludeFlagged(AddFlagInfo(ApplyFilters(ranked_candidates, query)),
                             query.exclude_flagged),
              query.limit)]

EmptyResponse(p, query) ==
    [status |-> "ok", internship_id |-> p, query |-> query,
     total_before_filter |-> 0, ranked_candidates |-> <<>>]

Error500(p, query) == [status |-> "Error500", internship_id |-> p, query |-> query]

MatchScoreOf == "match_score"

BaseScoreOf == "base_similarity_score"

\* Applicant mode: the applications of the posting joined with their student
\* and the resume they name, each scored, the rows sorted by score
RankApplicants(p, query) ==
    LET apps == {k \in DOMAIN applications : applications[k].internship_id = p}
    IN IF apps = {}
       THEN {EmptyResponse(p, query)}
       ELSE IF \E k \in apps : FinalScore(applications[k], p) = ValueError
            THEN {Error500(p, query)}
            ELSE {Respond(p, query, ranked) :
                    ranked \in OrderedByScoreDesc(
                        {ApplicantCandidate(applications[k], p) : k \in apps},
                        MatchScoreOf)}

\* Non-applicant mode: the match rows of the posting joined with their student
\* and resume, ordered by the base score and cut to the limit by the query
RankDiscovery(p, query) ==
    LET rows == {m \in matches : m.internship_id = p}
    IN IF rows = {}
       THEN {EmptyResponse(p, query)}
       ELSE {Respond(p, query,
                     [k \in DOMAIN Take(base_matches, query.limit) |->
                         DiscoveryCandidate(base_matches[k])]) :
                base_matches \in OrderedByScoreDesc(rows, BaseScoreOf)}

\* The responses the ranking can give in the present state
RankResponses(p, query) ==
    IF p \notin DOMAIN internships
    THEN {Error500(p, query)}
    ELSE IF query.only_applicants
         THEN RankApplicants(p, query)
         ELSE RankDiscovery(p, query)

\* rank_candidates_for_internship: nothing is written; the response is kept
RankCandidatesForInternship(p, query) ==
    /\ ops < MaxOps
    /\ ops' = ops + 1
    /\ ranking' \in RankResponses(p, query)
    /\ UNCHANGED <<users, internships, resumes, resume_collection,
                   internship_collection, matches, runs, hist, applications,
                   requests, gateway, parsed, admins>>

\* get_flagged_candidates_details: the flag state of the students among
\* id_list; the response is kept
GetFlaggedCandidatesDetails(id_list) ==
    /\ ops < MaxOps
    /\ ops' = ops + 1
    /\ LET flag_info == GetFlagInfoForCandidates(id_list)
       IN ranking' =
            [status |-> "flagged",
             candidates |->
                 [s \in id_list \cap DOMAIN users |->
                     [is_flagged |-> s \in DOMAIN flag_info,
                      flag_reasons |-> IF s \in DOMAIN flag_info
                                       THEN flag_info[s].reasons ELSE <<>>,
                      flagged_with |-> IF s \in DOMAIN flag_info
                                       THEN flag_info[s].flagged_with ELSE <<>>]]]
    /\ UNCHANGED <<users, internships, resumes, resume_collection,
                   internship_collection, matches, runs, hist, applications,
                   requests, gateway, parsed, admins>>

\* update_my_profile of a student: the fields given in profile_data are written
UpdateMyProfile(s, profile_data) ==
    /\ s \in DOMAIN users
    /\ ops < MaxOps
    /\ ops' = ops + 1
    /\ users' = [users EXCEPT ![s] =
                    [f \in DOMAIN users[s] |->
                        IF f \in DOMAIN profile_data
                        THEN profile_data[f] ELSE users[s][f]]]
    /\ UNCHANGED <<internships, resumes, resume_collection, internship_collection,
                   matches, runs, hist, applyVars>>

\* The requests that change users, postings, resumes and vectors
Environment ==
    \/ \E f \in PostingForms : PostInternship(f)
    \/ \E p \in Postings, f \in PostingForms : UpdateInternship(p, f)
    \/ \E p \in Postings : DeleteInternship(p)
    \/ \E s \in Students, a \in {0, 1} : UpdateUser(s, a)
    \/ \E s \in Students, d \in ResumeDocs : UploadResume(s, d)
    \/ \E s \in Students, d \in ResumeDocs : ReindexStudentResume(s, d)
    \/ ClearChromadbEmbeddings

\* The requests of the pre-computer made on run r
PreComputer(r) ==
    \/ \E f \in BOOLEAN : ComputeAll(r, f)
    \/ \E s \in Students : ComputeMatchesForStudent(r, s)
    \/ \E p \in Postings : ComputeMatchesForInternship(r, p)
    \/ ComputeStudent(r)

\* One pre-compute run at a time, among every changing request
Next == Environment \/ PreComputer("r1")

Spec == Init /\ [][Next]_vars

\* Two pre-compute runs that may overlap, among the posting of internships
NextOverlap ==
    \/ \E r \in Runs : PreComputer(r)
    \/ \E f \in PostingForms : PostInternship(f)

SpecOverlap == Init /\ [][NextOverlap]_vars

\* One pre-compute run among the requests that add or remove vectors
NextVectors ==
    \/ PreComputer("r1")
    \/ \E f \in PostingForms : PostInternship(f)
    \/ \E p \in Postings : DeleteInternship(p)
    \/ \E s \in Students, d \in ResumeDocs : UploadResume(s, d)
    \/ ClearChromadbEmbeddings

SpecVectors == Init /\ [][NextVectors]_vars

\* Apply requests, among the requests that write resumes and the posting and
\* closing of internships
NextApply ==
    \/ \E q \in Requests, s \in Students, p \in Postings, t \in BOOLEAN :
          ApplyToInternship(q, s, p, t)
    \/ \E q \in Requests, d \in ResumeDocs : ApplyWithTailored(q, d)
    \/ \E q \in Requests : ApplyFallback(q)
    \/ \E s \in Students, d \in ResumeDocs : UploadResume(s, d)
    \/ \E f \in PostingForms : PostInternship(f)
    \/ \E p \in Postings : DeleteInternship(p)
    \/ \E s \in Students, d \in ResumeDocs : ReindexStudentResume(s, d)

SpecApply == Init /\ [][NextApply]_vars

\* Ranking requests, among one pre-compute run, the uploads of resumes and
\* the activation and deactivation of students
NextRank ==
    \/ \E p \in Postings, query \in RankQueries : RankCandidatesForInternship(p, query)
    \/ PreComputer("r1")
    \/ \E s \in Students, d \in ResumeDocs : UploadResume(s, d)
    \/ \E s \in Students, a \in {0, 1} : UpdateUser(s, a)

SpecRank == Init /\ [][NextRank]_vars

(***************************************************************************)
(* A database that was in use while the resumes table had its embedding    *)
(* column (scripts/remove_embedding_column.py drops it): apply requests    *)
(* stored their rows then.  Student 1 has applied to posting 1 with a      *)
(* tailored resume, student 2 with the base resume.                        *)
(***************************************************************************)
PlainDoc ==
    CHOOSE d \in ResumeDocs : d.vec = <<-1, 0>>

\* The row apply_to_internship stored for a resume document and the posting
StoredApplication(s, rid, doc, used_tailored) ==
    [student_id |-> s, internship_id |-> 1, resume_id |-> rid,
     application_similarity_score |->
         IntOfScore(CalculateMatchScore(
                        doc.parsed_data,
                        [required_skills |-> SeedForm.required_skills,
                         preferred_skills |-> SeedForm.preferred_skills,
                         min_experience |-> 0, max_experience |-> 100,
                         has_required_education |-> FALSE,
                         required_education |-> {}],
                        List(doc.vec), List(SeedForm.vec)).overall_score),
     used_tailored_resume |-> used_tailored]

StoredResume(s, rid, doc, is_tailored) ==
    [student_id |-> s, is_active |-> 1, is_tailored |-> is_tailored,
     parsed_data |-> [dict |-> doc.parsed_data],
     embedding_id |-> [ref |-> rid]]

InitStored ==
    /\ users = [s \in Students |-> SeedUser(SeedPhones[s])]
    /\ internships =
         [p \in {1} |->
            [is_active |-> 1,
             required_skills |-> SeedForm.required_skills,
             preferred_skills |-> SeedForm.preferred_skills,
             min_experience |-> [num |-> 0],
             max_experience |-> [num |-> 100],
             required_education |-> None]]
    /\ resumes = <<StoredResume(1, 1, PlainDoc, 0), StoredResume(1, 2, SeedDoc, 1),
                   StoredResume(2, 3, SeedDoc, 0)>>
    /\ resume_collection = <<PlainDoc.vec, SeedDoc.vec, SeedDoc.vec>>
    /\ internship_collection = [p \in {1} |-> SeedForm.vec]
    /\ matches = {}
    /\ runs = [r \in Runs |-> IdleRun]
    /\ hist = NoHist
    /\ ops = 0
    /\ applications = <<StoredApplication(1, 2, SeedDoc, 1),
                        StoredApplication(2, 3, SeedDoc, 0)>>
    /\ requests = [q \in Requests |-> IdleRequest]
    /\ ranking = NoRanking
    /\ gateway = IdleGateway
    /\ parsed = NoResult
    /\ admins = SeedAdmins

\* Ranking requests on the database with stored applications, among one
\* pre-compute run, the clearing of the vectors and the closing of postings
NextStored ==
    \/ \E p \in Postings, query \in RankQueries : RankCandidatesForInternship(p, query)
    \/ PreComputer("r1")
    \/ ClearChromadbEmbeddings
    \/ \E p \in Postings : DeleteInternship(p)

SpecStored == InitStored /\ [][NextStored]_vars

(***************************************************************************)
(* delete_user (app/routes/auth.py), called by an admin on a student.      *)
(***************************************************************************)
\* The key of an entry of the resume collection: f"resume_{resume_id}"
ResumeKey(resume_id) == <<"resume_">> \o resume_id

\* The text of a stored embedding_id: what store_resume_embedding returned
EmbeddingIdText(embedding_id) == ResumeKey(<<embedding_id.ref>>)

SameKey(a, b) == Len(a) = Len(b) /\ \A i \in 1..Len(a) : a[i] = b[i]

\* RAGEngine.delete_resume_embedding(resume_id): the entry under the key
\* "resume_" + resume_id is deleted, if there is one
DeleteResumeEmbedding(coll, resume_id) ==
    LET hit == {k \in DOMAIN coll : SameKey(ResumeKey(<<k>>), ResumeKey(resume_id))}
    IN [k \in DOMAIN coll \ hit |-> coll[k]]

\* The applications table references users and resumes by foreign keys; the
\* Application model is not part of the sources, the keys are those of the
\* specified schema.
ReferencedByApplication(s) ==
    \E k \in DOMAIN applications :
        \/ applications[k].student_id = s
        \/ /\ applications[k].resume_id \in DOMAIN resumes
           /\ resumes[applications[k].resume_id].student_id = s

\* delete_user: the vectors are deleted with the stored embedding_id as the
\* resume id, then the resumes, the match rows and the user are deleted in one
\* transaction.  A row that an application references cannot be deleted: the
\* exception rolls the transaction back and the response is 500.  The vector
\* store is not part of the transaction.  The request is made while no
\* pre-compute run is in progress.
DeleteUser(s) ==
    /\ s \in DOMAIN users
    /\ \A r \in Runs : ~Running(r)
    /\ ops < MaxOps
    /\ ops' = ops + 1
    /\ LET mine == {rid \in DOMAIN resumes : resumes[rid].student_id = s}
           ids == {EmbeddingIdText(resumes[rid].embedding_id) :
                      rid \in {x \in mine : resumes[x].embedding_id /= None}}
           gone == {k \in DOMAIN resume_collection :
                      \E id \in ids :
                          k \notin DOMAIN DeleteResumeEmbedding(resume_collection, id)}
       IN /\ resume_collection' =
                [k \in DOMAIN resume_collection \ gone |-> resume_collection[k]]
          /\ IF ReferencedByApplication(s)
             THEN UNCHANGED <<users, resumes, matches, hist>>
             ELSE /\ users' = [u \in DOMAIN users \ {s} |-> users[u]]
                  /\ resumes' = [rid \in DOMAIN resumes \ mine |-> resumes[rid]]
                  /\ matches' = {m \in matches : m.student_id /= s}
                  /\ hist' = NoHist
    /\ UNCHANGED <<internships, internship_collection, runs, applyVars>>

\* The database with one stored application: student 1 applied with the
\* tailored resume, student 2 has a resume and did not apply
InitDelete ==
    /\ users = [s \in Students |-> SeedUser(SeedPhones[s])]
    /\ internships =
         [p \in {1} |->
            [is_active |-> 1,
             required_skills |-> SeedForm.required_skills,
             preferred_skills |-> SeedForm.preferred_skills,
             min_experience |-> [num |-> 0],
             max_experience |-> [num |-> 100],
             required_education |-> None]]
    /\ resumes = <<StoredResume(1, 1, PlainDoc, 0), StoredResume(1, 2, SeedDoc, 1),
                   StoredResume(2, 3, SeedDoc, 0)>>
    /\ resume_collection = <<PlainDoc.vec, SeedDoc.vec, SeedDoc.vec>>
    /\ internship_collection = [p \in {1} |-> SeedForm.vec]
    /\ matches = {}
    /\ runs = [r \in Runs |-> IdleRun]
    /\ hist = NoHist
    /\ ops = 0
    /\ applications = <<StoredApplication(1, 2, SeedDoc, 1)>>
    /\ requests = [q \in Requests |-> IdleRequest]
    /\ ranking = NoRanking
    /\ gateway = IdleGateway
    /\ parsed = NoResult
    /\ admins = SeedAdmins

\* The deletion of students, among their activation and deactivation, the
\* ranking requests and one pre-compute run
NextDelete ==
    \/ \E s \in Students : DeleteUser(s)
    \/ \E s \in Students, a \in {0, 1} : UpdateUser(s, a)
    \/ \E p \in Postings, query \in RankQueries : RankCandidatesForInternship(p, query)
    \/ PreComputer("r1")

SpecDelete == InitDelete /\ [][NextDelete]_vars

(***************************************************************************)
(* GeminiKeyManager (app/utils/gemini_key_manager.py).  One object serves   *)
(* every call of the process: failed_keys and clients last from call to    *)
(* call.                                                                   *)
(***************************************************************************)
\* purpose_keys, in the order of the dict, the keys that are not set removed
PurposeKeys == <<"resume_parsing", "skills_extraction", "fallback_1">>

Purposes == {"resume_parsing", "skills_extraction", "matching_explanation"}

DefaultMaxRetries == 3

MaxRetriesArgs == {1, DefaultMaxRetries}

IsFallback(key) == key = "fallback_1"

\* _get_key_priority_list
GetKeyPriorityList(purpose) ==
    LET IsPurpose(key) == key = purpose
        IsOther(key) == key /= purpose /\ ~IsFallback(key)
    IN SelectSeq(PurposeKeys, IsPurpose) \o SelectSeq(PurposeKeys, IsFallback)
       \o SelectSeq(PurposeKeys, IsOther)

\* What a call of the API can do: answer, or raise an error that get_client
\* reads as a rate limit, as an invalid key or as another error
ApiOutcomes == {"ok", "rate_limit", "invalid", "other"}

GatewayUnchanged ==
    UNCHANGED <<users, internships, resumes, resume_collection,
                internship_collection, matches, runs, hist, ops, applications,
                requests, ranking, parsed, admins>>

\* generate_content(purpose=purpose, max_retries=max_retries) is called by
\* caller c: it calls get_client, which reads the priority list
GenerateContent(c, purpose, max_retries) ==
    /\ gateway.call[c].pc \in {"idle", "returned", "raised"}
    /\ gateway' = [gateway EXCEPT !.call[c] =
                      [IdleCall EXCEPT !.pc = "get_client", !.purpose = purpose,
                                       !.max_retries = max_retries,
                                       !.keys_to_try = GetKeyPriorityList(purpose),
                                       !.attempt = 0, !.k = 1,
                                       !.tried = [i \in 1..max_retries |-> {}]]]
    /\ GatewayUnchanged

\* get_client of caller c, one step of its loops: the raise after the last
\* round; the end of a round; a key that is skipped; or a key that is used,
\* tested in the first round only, with the outcome `test` of _test_client.
\* The object has no lock: the steps of the callers interleave.
GetClientStep(c, test) ==
    /\ gateway.call[c].pc = "get_client"
    /\ LET g == gateway.call[c]
           key == g.keys_to_try[g.k]
           tested == g.attempt = 0
           u == [g EXCEPT !.tried[g.attempt + 1] = @ \cup {key},
                          !.last = IF tested THEN test ELSE "untested",
                          !.last_key = key,
                          !.passed = IF tested /\ test = "ok"
                                     THEN @ \cup {key} ELSE @]
           again == [gateway EXCEPT
                        !.clients = @ \cup {key},
                        !.retried = IF key \in gateway.waiting
                                    THEN @ \cup {key} ELSE @,
                        !.waiting = @ \ {key}]
       IN gateway' =
            IF g.attempt >= g.max_retries
            THEN [gateway EXCEPT !.call[c] =
                     [g EXCEPT !.pc = "raised", !.error = "Exception"]]
            ELSE IF g.k > Len(g.keys_to_try)
            THEN [gateway EXCEPT
                     !.failed_keys = IF g.attempt < g.max_retries - 1
                                     THEN {} ELSE @,
                     !.call[c] = [g EXCEPT !.attempt = @ + 1, !.k = 1]]
            ELSE IF key \in gateway.failed_keys
            THEN [gateway EXCEPT !.call[c] = [g EXCEPT !.k = @ + 1]]
            ELSE IF ~tested \/ test = "ok"
            THEN [again EXCEPT !.call[c] =
                     [u EXCEPT !.pc = "generate", !.client = key]]
            ELSE IF test \in {"rate_limit", "invalid"}
            THEN [again EXCEPT
                     !.failed_keys = @ \cup {key},
                     !.invalid = IF test = "invalid" THEN @ \cup {key} ELSE @,
                     !.waiting = IF test = "rate_limit"
                                 THEN @ \cup {key} ELSE @ \ {key},
                     !.call[c] = [u EXCEPT !.marked = @ \cup {key},
                                           !.k = @ + 1]]
            ELSE [again EXCEPT !.call[c] = [u EXCEPT !.k = @ + 1]]
    /\ GatewayUnchanged

\* generate_content of caller c after get_client returned: one call of the
\* model with the client; a text is returned, anything else is raised again
GenerateStep(c, answer) ==
    /\ gateway.call[c].pc = "generate"
    /\ gateway' = IF answer = "text"
                  THEN [gateway EXCEPT !.call[c].pc = "returned"]
                  ELSE [gateway EXCEPT !.call[c].pc = "raised",
                                       !.call[c].error = "Exception"]
    /\ GatewayUnchanged

\* The answers of the generation call
Answers == {"text", "no_response", "safety", "empty", "error"}

\* The calls of one caller and their steps
NextGateway ==
    \/ \E purpose \in Purposes, max_retries \in MaxRetriesArgs :
          GenerateContent("c1", purpose, max_retries)
    \/ \E test \in ApiOutcomes : GetClientStep("c1", test)
    \/ \E answer \in Answers : GenerateStep("c1", answer)

SpecGateway == Init /\ [][NextGateway]_vars

\* An unbounded sequence of calls for one purpose: each call that has begun
\* goes on, and a caller whose call has ended calls again
NextGatewayLive ==
    \/ GenerateContent("c1", "resume_parsing", DefaultMaxRetries)
    \/ \E test \in ApiOutcomes : GetClientStep("c1", test)
    \/ \E answer \in Answers : GenerateStep("c1", answer)

SpecGatewayLive == Init /\ [][NextGatewayLive]_vars /\ WF_vars(NextGatewayLive)

\* Two callers at once
NextPool ==
    \E c \in Callers :
        \/ GenerateContent(c, "resume_parsing", DefaultMaxRetries)
        \/ \E test \in {"ok", "rate_limit"} : GetClientStep(c, test)
        \/ \E answer \in {"text", "error"} : GenerateStep(c, answer)

SpecPool == Init /\ [][NextPool]_vars

(***************************************************************************)
(* Recommendations (get_recommendations_for_student in recommendations.py).*)
(* The postings of the model have no location, experience level or date:   *)
(* the requests give none of these filters and sort by score, descending.  *)
(***************************************************************************)
DefaultPageSize == 10

\* The first comma of the text, 0 if it has none
FirstComma(text) ==
    IF \E i \in DOMAIN text : text[i] = ","
    THEN CHOOSE i \in DOMAIN text :
             text[i] = "," /\ \A j \in 1..(i - 1) : text[j] /= ","
    ELSE 0

\* str.split(',')
RECURSIVE SplitComma(_)
SplitComma(text) ==
    IF FirstComma(text) = 0
    THEN <<text>>
    ELSE <<SubSeq(text, 1, FirstComma(text) - 1)>>
         \o SplitComma(SubSeq(text, FirstComma(text) + 1, Len(text)))

\* [s.strip() for s in skills.split(',')]
SkillList(skills) ==
    [i \in DOMAIN SplitComma(skills) |-> Strip(SplitComma(skills)[i])]

\* json_contains(required_skills, '"skill"'): the array has the string as an
\* element
JsonContains(required_skills, skill) ==
    \E i \in DOMAIN required_skills : required_skills[i] = skill

\* The parameter sets the recommendations are asked with
RecQueries ==
    { [min_score |-> None, max_score |-> None, skills |-> None],
      [min_score |-> [num |-> 50], max_score |-> None, skills |-> None],
      [min_score |-> None, max_score |-> None,
       skills |-> [text |-> <<"P", "y", ",", " ", "s", "q", "l">>]],
      [min_score |-> None, max_score |-> [num |-> 90],
       skills |-> [text |-> <<"s", "q", "l">>]] }

\* The filters of the query on a match row joined with its posting; the skill
\* filters are joined by or_
PassesRecFilters(m, query) ==
    /\ query.min_score /= None
       => m.base_similarity_score >= 100 * query.min_score.num
    /\ query.max_score /= None
       => m.base_similarity_score <= 100 * query.max_score.num
    /\ (query.skills /= None /\ query.skills.text /= <<>>)
       => \E i \in DOMAIN SkillList(query.skills.text) :
             JsonContains(internships[m.internship_id].required_skills,
                          SkillList(query.skills.text)[i])

\* The item of the response for a match row
RecItem(m) ==
    [internship_id |-> m.internship_id,
     required_skills |-> internships[m.internship_id].required_skills,
     match_score |-> m.base_similarity_score \div 100]

\* The responses the route can give in the present state: 404 without an
\* active resume; else the first page of the filtered rows, in an order of
\* descending score.  json_contains is a function of the database: where the
\* database has none (PostgreSQL), a query with a skill filter raises and the
\* response is 500.
RecommendationResponses(s, query) ==
    IF ActiveResumes(resumes, s) = {}
    THEN {[status |-> "404"]}
    ELSE LET rows == {m \in matches :
                        /\ m.student_id = s
                        /\ m.internship_id \in DOMAIN internships
                        /\ internships[m.internship_id].is_active = 1
                        /\ PassesRecFilters(m, query)}
             ok == {[status |-> "recommendations", student_id |-> s,
                     query |-> query, total |-> Cardinality(rows),
                     items |-> [k \in DOMAIN Take(ordered, DefaultPageSize) |->
                                   RecItem(ordered[k])]] :
                       ordered \in OrderedByScoreDesc(rows, BaseScoreOf)}
         IN IF query.skills /= None /\ query.skills.text /= <<>>
            THEN ok \cup {[status |-> "500"]}
            ELSE ok

\* get_recommendations_for_student, called by student s: nothing is written;
\* the response is kept
GetRecommendationsForStudent(s, query) ==
    /\ s \in DOMAIN users
    /\ ops < MaxOps
    /\ ops' = ops + 1
    /\ ranking' \in RecommendationResponses(s, query)
    /\ UNCHANGED <<users, internships, resumes, resume_collection,
                   internship_collection, matches, runs, hist, applications,
                   requests, gateway, parsed, admins>>

\* Recommendation requests, among the posting and closing of postings and one
\* pre-compute run
NextRecommend ==
    \/ \E s \in Students, query \in RecQueries : GetRecommendationsForStudent(s, query)
    \/ \E form \in PostingForms : PostInternship(form)
    \/ \E p \in Postings : DeleteInternship(p)
    \/ PreComputer("r1")

SpecRecommend == Init /\ [][NextRecommend]_vars

(***************************************************************************)
(* Duplicate detection on three students.                                  *)
(***************************************************************************)
FlagStudents == {1, 2, 3}

\* One number written in three ways
FlagPhones ==
    << <<"9", "9", "9", "-", "8", "8", "8", "-", "7", "7", "7", "7">>,
       <<"(", "9", "9", "9", ")", " ", "8", "8", "8", "7", "7", "7", "7">>,
       <<"9", "9", "9", "8", "8", "8", "7", "7", "7", "7">> >>

\* The dicts update_my_profile is called with
ProfileUpdates ==
    << [phone |-> [text |-> FlagPhones[3]]],
      [phone |-> [text |-> <<"7">>]],
      [phone |-> [text |-> <<"-">>]],
      [phone |-> None],
      [linkedin_url |-> [text |-> <<"h", "t", "t", "p", "s", ":", "/", "/", "w", "w", "w",
                          ".", "a", "/">>]],
      [linkedin_url |-> [text |-> <<" ", "A">>]],
      [linkedin_url |-> [text |-> <<"h", "t", "t", "p", ":", "/", "/">>]],
      [github_url |-> [text |-> <<"a", "/", "/">>]],
      [github_url |-> [text |-> <<"w", "w", "w", ".", "A">>]],
      [github_url |-> [text |-> <<>>]] >>

\* Students 1 and 2 have an uploaded resume, student 3 has none; the three
\* gave the same phone number
InitFlagging ==
    /\ users = [s \in FlagStudents |-> SeedUser(FlagPhones[s])]
    /\ internships =
         [p \in {1} |->
            [is_active |-> 1,
             required_skills |-> SeedForm.required_skills,
             preferred_skills |-> SeedForm.preferred_skills,
             min_experience |-> [num |-> 0],
             max_experience |-> [num |-> 100],
             required_education |-> None]]
    /\ resumes = <<StoredResume(1, 1, PlainDoc, 0), StoredResume(2, 2, SeedDoc, 0)>>
    /\ resume_collection = <<PlainDoc.vec, SeedDoc.vec>>
    /\ internship_collection = [p \in {1} |-> SeedForm.vec]
    /\ matches = {}
    /\ runs = [r \in Runs |-> IdleRun]
    /\ hist = NoHist
    /\ ops = 0
    /\ applications = <<>>
    /\ requests = [q \in Requests |-> IdleRequest]
    /\ ranking = NoRanking
    /\ gateway = IdleGateway
    /\ parsed = NoResult
    /\ admins = SeedAdmins

\* Profile updates and uploads of the three students, and the requests for
\* the flag state
NextFlagging ==
    \/ \E s \in FlagStudents, i \in DOMAIN ProfileUpdates :
          UpdateMyProfile(s, ProfileUpdates[i])
    \/ \E s \in FlagStudents, d \in ResumeDocs : UploadResume(s, d)
    \/ \E id_list \in {{1, 2, 3}, {1}, {3}} : GetFlaggedCandidatesDetails(id_list)

SpecFlagging == InitFlagging /\ [][NextFlagging]_vars

(***************************************************************************)
(* Properties.                                                             *)
(***************************************************************************)
ApplicationsOf(s, p) ==
    {k \in DOMAIN applications :
        applications[k].student_id = s /\ applications[k].internship_id = p}

PastChecks(q) ==
    /\ requests[q].pc = "done"
    /\ requests[q].response \notin {"InternshipNotFound", "NoActiveResume"}

\* C1: apply submissions serialize on (candidate, posting): a pair never has
\* more than one Application row, and of any two finished submissions of a
\* pair that passed the posting and resume checks at least one was answered
\* AlreadyApplied.
C1_ApplySerializes ==
    /\ \A s \in Students, p \in Postings : Cardinality(ApplicationsOf(s, p)) <= 1
    /\ \A q1, q2 \in Requests :
          (/\ q1 /= q2
           /\ PastChecks(q1) /\ PastChecks(q2)
           /\ requests[q1].student_id = requests[q2].student_id
           /\ requests[q1].internship_id = requests[q2].internship_id)
          => "AlreadyApplied" \in {requests[q1].response, requests[q2].response}

C3_RerunIdempotent ==
    \A r \in Runs :
        (runs[r].rerun /\ hist.clean)
        => /\ runs[r].pc /= "aborted"
           /\ runs[r].pc = "done" => matches = hist.base

\* The student and the results of the pass the run is about to make
CurrentStudent(r) == resumes[runs[r].students[runs[r].i]].student_id

Stepped(r) == Running(r) /\ runs'[r] /= runs[r]

\* C4: a pass of a run over one candidate's pairs never ends the run by an
\* exception, and every pair of the pass that was scored has its row in the
\* table after the pass.
C4_PairFailureIsolated ==
    [][\A r \in Runs :
          Stepped(r)
          => /\ runs'[r].pc /= "aborted"
             /\ \A p \in DOMAIN PairResults(r) :
                   PairResults(r)[p] /= ValueError
                   => \E m \in matches' : MatchKey(m) = <<CurrentStudent(r), p>>]_vars

\* C5: a match row exists only for an active candidate with an active base
\* resume and an active posting.
C5_MatchOnlyForActive ==
    \A m \in matches :
        /\ users[m.student_id].is_active = 1
        /\ internships[m.internship_id].is_active = 1
        /\ ActiveBase(resumes, m.student_id) /= {}

\* C6: the table holds one row per (candidate, posting), and a run that
\* deleted the rows of its scope when it began, so that any row its insert
\* meets was written by an overlapping run, is not ended by the unique-key
\* conflict.
C6_ConflictIsSuccess ==
    [][/\ \A m1, m2 \in matches' : MatchKey(m1) = MatchKey(m2) => m1 = m2
       /\ \A r \in Runs :
             (Stepped(r) /\ runs[r].force) => runs'[r].pc /= "aborted"]_vars

\* C7: every call of compute_matches_for_student(s) deletes the match rows of
\* s before anything else: no row of s is left by the step that begins it.
C7_CandidateRowsDeletedFirst ==
    [][\A r \in Runs, s \in Students :
          ComputeMatchesForStudent(r, s)
          => \A m \in matches' : m.student_id /= s]_vars

\* The step creates posting p or replaces its skills
PostingWritten(p) ==
    /\ p \in DOMAIN internships'
    /\ IF p \in DOMAIN internships
       THEN \/ internships'[p].required_skills /= internships[p].required_skills
            \/ internships'[p].preferred_skills /= internships[p].preferred_skills
       ELSE TRUE

\* C8: the step that creates or edits a posting starts a pre-compute run for
\* that posting.
C8_PostingTriggersCompute ==
    [][\A p \in Postings :
          PostingWritten(p)
          => \E r \in Runs :
                /\ runs'[r] /= runs[r]
                /\ \/ runs'[r].pc = "done"
                   \/ runs'[r].pc = "loop" /\ runs'[r].internship_ids = {p}]_vars

\* A vector that is missing, empty or zero
VectorUnusable(e) ==
    \/ e = None
    \/ e /= None /\ \A k \in 1..Len(e.list) : e.list[k] = 0

PairUnusable(rid, p) ==
    \/ VectorUnusable(GetResumeEmbedding(resume_collection, rid))
    \/ VectorUnusable(GetInternshipEmbedding(internship_collection, p))

\* C9: in every pass of a run, a pair whose resume vector or posting vector is
\* missing, empty or zero gets the scoring error, no score, and no new row.
C9_NoRowWithoutVector ==
    [][\A r \in Runs :
          Stepped(r)
          => \A p \in SeqToSet(runs[r].internships) :
                PairUnusable(runs[r].students[runs[r].i], p)
                => /\ PairResults(r)[p] = ValueError
                   /\ \A m \in matches' \ matches :
                         MatchKey(m) /= <<CurrentStudent(r), p>>]_vars

NoRowFor(rid, p) ==
    \A m \in matches : MatchKey(m) /= <<resumes[rid].student_id, p>>

\* C9, its case: a full run has completed over the present resumes, postings
\* and vectors, among them a resume whose vector is missing and a posting
\* whose vector is zero, and their pairs have no row.
C9_UnusablePairsSkipped ==
    /\ hist.clean
    /\ \E rid \in DOMAIN resumes, p, z \in DOMAIN internships :
          /\ resumes[rid].is_active = 1
          /\ internships[p].is_active = 1 /\ internships[z].is_active = 1
          /\ GetResumeEmbedding(resume_collection, rid) = None
          /\ GetInternshipEmbedding(internship_collection, z) = List(<<0, 0>>)
          /\ NoRowFor(rid, p) /\ NoRowFor(rid, z)

\* C10: every match row has its composite, semantic, skills and experience
\* scores between 0 and 100.
C10_ScoresInRange ==
    \A m \in matches :
        /\ m.base_similarity_score \in 0..10000
        /\ m.semantic_similarity \in 0..10000
        /\ m.skills_match_score \in 0..10000
        /\ m.experience_match_score \in 0..10000

\* C11: every row of every ranking response belongs to a candidate whose
\* active flag is set when the response is given.
C11_RankedAreActive ==
    [][(ranking' /= ranking /\ ranking'.status = "ok")
       => \A k \in DOMAIN ranking'.ranked_candidates :
             users[ranking'.ranked_candidates[k].student_id].is_active = 1]_vars

\* For every resume with is_active = 1: a vector is stored under the resume's
\* id exactly when its embedding_id is not null
VectorIffRef ==
    \A rid \in DOMAIN resumes :
        resumes[rid].is_active = 1
        => (rid \in DOMAIN resume_collection <=> resumes[rid].embedding_id /= None)

\* The students that have a resume with a vector reference
Affected == {resumes[rid].student_id : rid \in {x \in DOMAIN resumes :
                                                   resumes[x].embedding_id /= None}}

Received(q) == requests[q].pc = "idle" /\ requests'[q].pc /= "idle"

FellBack(q) ==
    /\ requests[q].pc = "await"
    /\ requests'[q].pc = "done"
    /\ resumes' = resumes

\* C14: when the processing of the tailored resume fails, the request goes on
\* with the resume it found before: it is answered Created, and the one row
\* it adds has used_tailored_resume = 0 and the id of that resume.
C14_TailoredFailureFallsBack ==
    [][\A q \in Requests :
          FellBack(q)
          => /\ requests'[q].response = "Created"
             /\ Len(applications') = Len(applications) + 1
             /\ applications'[Len(applications')].used_tailored_resume = 0
             /\ applications'[Len(applications')].resume_id = requests[q].resume_id]_vars

\* The composite score of resume rid and posting p, or ValueError
Composite(rid, p) ==
    CalculateMatchScore(CandidateData(resumes[rid]), InternshipData(internships[p]),
                        OrEmpty(GetResumeEmbedding(resume_collection, rid)),
                        OrEmpty(GetInternshipEmbedding(internship_collection, p)))

\* C15: an apply request without a tailored resume that passes the checks,
\* by a student whose active base resume and whose posting have vectors that
\* can be scored, is answered Created and adds exactly one Application row,
\* with the student, the posting, the resume and the integer part of their
\* composite score.
C15_ApplyPersistsScored ==
    [][\A q \in Requests :
          (/\ Received(q)
           /\ requests'[q].pc = "done"
           /\ ApplyChecks(requests'[q].student_id, requests'[q].internship_id) = "ok"
           /\ requests'[q].resume_id \in ActiveBase(resumes, requests'[q].student_id)
           /\ Composite(requests'[q].resume_id, requests'[q].internship_id) /= ValueError)
          => /\ requests'[q].response = "Created"
             /\ Len(applications') = Len(applications) + 1
             /\ applications'[Len(applications')] =
                   [student_id |-> requests'[q].student_id,
                    internship_id |-> requests'[q].internship_id,
                    resume_id |-> requests'[q].resume_id,
                    application_similarity_score |->
                        IntOfScore(Composite(requests'[q].resume_id,
                                             requests'[q].internship_id).overall_score),
                    used_tailored_resume |-> 0]]_vars

\* The application of student s to posting p
ApplicationOf(s, p) ==
    applications[CHOOSE k \in DOMAIN applications :
                    /\ applications[k].student_id = s
                    /\ applications[k].internship_id = p]

\* The ranking score of an applicant's row: with a tailored resume that has a
\* vector, eight tenths of the composite score of that resume and the
\* posting plus two tenths of the baseline; else the baseline
EffectiveScore(app, p) ==
    LET baseline == BaseMatch(app.student_id, p).base_similarity_score
    IN IF /\ app.used_tailored_resume = 1
          /\ GetResumeEmbedding(resume_collection, app.resume_id) /= None
       THEN RoundDiv(8 * Composite(app.resume_id, p).overall_score + 2 * baseline, 10)
       ELSE baseline

\* C16: in every response of the applicant ranking, the row of an applicant
\* who has a baseline row carries the effective score: the blend of the
\* tailored resume's composite score and the baseline when the application
\* used a tailored resume that has a vector, the baseline otherwise.
C16_ApplicantBlend ==
    [][(/\ ranking' /= ranking
        /\ ranking'.status = "ok"
        /\ ranking'.query.only_applicants)
       => \A k \in DOMAIN ranking'.ranked_candidates :
             LET c == ranking'.ranked_candidates[k]
                 app == ApplicationOf(c.student_id, ranking'.internship_id)
             IN BaseMatch(c.student_id, ranking'.internship_id) /= None
                => c.match_score = EffectiveScore(app, ranking'.internship_id)]_vars

\* All candidates of posting p in the mode of the query that pass the scalar
\* filters and, when the flagged are excluded, are not flagged
Eligible(p, query) ==
    LET all == IF query.only_applicants
               THEN {ApplicantCandidate(applications[k], p) :
                       k \in {x \in DOMAIN applications :
                                 applications[x].internship_id = p}}
               ELSE {DiscoveryCandidate(m) : m \in {x \in matches : x.internship_id = p}}
    IN {c \in all :
          /\ PassesFilters(c, query)
          /\ query.exclude_flagged => c.student_id \notin DOMAIN DetectFlaggedCandidates}

\* C18: the limit is cut after all filters and the flag state is written
\* before the flagged are excluded: a response has as many rows as the limit
\* allows of the candidates of the posting that pass the filters, in
\* descending order of score, none of them scored below a passing candidate
\* that is left out, and each row carries the candidate's flag state.
C18_LimitAfterFilters ==
    [][(ranking' /= ranking /\ ranking'.status = "ok")
       => LET rows == ranking'.ranked_candidates
              eligible == Eligible(ranking'.internship_id, ranking'.query)
              shown == {rows[k].student_id : k \in DOMAIN rows}
          IN /\ Len(rows) = Min(ranking'.query.limit, Cardinality(eligible))
             /\ \A k \in DOMAIN rows :
                   /\ \E c \in eligible : c.student_id = rows[k].student_id
                   /\ rows[k].is_flagged
                         <=> rows[k].student_id \in DOMAIN DetectFlaggedCandidates
                   /\ k < Len(rows) => rows[k].match_score >= rows[k + 1].match_score
                   /\ \A c \in eligible :
                         c.student_id \notin shown => c.match_score <= rows[k].match_score]_vars

\* C19: a compute request made by a user who is no admin deletes no match
\* row and writes none.
C19_ComputeIsAdminOnly ==
    [][\A r \in Runs, role \in Roles \ {"admin"}, force_recompute \in BOOLEAN,
          student_id \in {None} \cup {[num |-> x] : x \in Students},
          internship_id \in {None} \cup {[num |-> x] : x \in Postings} :
          ComputeBatchSimilarityMatches(r, role, force_recompute, student_id,
                                        internship_id)
          => matches' = matches]_vars

HasApplications(s) == \E k \in DOMAIN applications : applications[k].student_id = s

\* C20: delete_user on a student who has applications leaves the student and
\* the applications in the database and leaves the student deactivated.
C20_StudentWithApplicationsDeactivated ==
    [][\A s \in Students :
          (DeleteUser(s) /\ HasApplications(s))
          => /\ s \in DOMAIN users'
             /\ users'[s].is_active = 0
             /\ applications' = applications]_vars

\* C17: a call of generate_content that has failed has tried every key of
\* its priority list in each of its max_retries rounds.
C17_FailsOnlyExhausted ==
    \A c \in Callers :
        gateway.call[c].pc = "raised"
        => \A i \in 1..gateway.call[c].max_retries :
              \A k \in DOMAIN gateway.call[c].keys_to_try :
                  gateway.call[c].keys_to_try[k] \in gateway.call[c].tried[i]

\* The key that caller c uses in the present step of get_client, if any
TriedBy(c) ==
    IF /\ gateway.call[c].pc = "get_client"
       /\ gateway'.call[c].tried /= gateway.call[c].tried
    THEN {gateway.call[c].keys_to_try[gateway.call[c].k]}
    ELSE {}

\* C25: a key that has answered with an invalid key error is never used
\* again, in no later round and by no later call.
C25_InvalidNeverTriedAgain ==
    [][\A c \in Callers : TriedBy(c) \cap gateway.invalid = {}]_vars

\* C26: after an error that is neither a rate limit nor an invalid key, the
\* next key get_client uses is the key that raised it.
C26_OtherErrorSameKey ==
    [][\A c \in Callers :
          (gateway.call[c].last = "other" /\ TriedBy(c) /= {})
          => TriedBy(c) = {gateway.call[c].last_key}]_vars

\* C27: a client that get_client returns belongs to a key that passed its
\* test in this invocation.
C27_ReturnedKeyPassedTest ==
    \A c \in Callers :
        gateway.call[c].pc = "generate"
        => gateway.call[c].client \in gateway.call[c].passed

\* C28: the key of a purpose, once marked failed for a rate limit, is used
\* again later, when the calls for that purpose go on without end.
C28_RateLimitedTriedAgain ==
    ("resume_parsing" \in gateway.waiting) ~> ("resume_parsing" \in gateway.retried)

\* The call of caller c is in progress
InProgress(c) == gateway.call[c].pc \in {"get_client", "generate"}

\* C30: while the call that marked a key failed is in progress, no step of
\* another caller removes the mark and no other caller obtains the key.
C30_MarkHeldUntilChainEnds ==
    [][\A c \in Callers : \A d \in Callers \ {c} :
          (InProgress(c) /\ gateway'.call[c] = gateway.call[c])
          => \A key \in gateway.call[c].marked \cap gateway.failed_keys :
                /\ key \in gateway'.failed_keys
                /\ (gateway'.call[d].client = key
                    => gateway.call[d].client = key)]_vars

HasActiveResume(s) == ActiveResumes(resumes, s) /= {}

\* The flag of student s is sound: the student has an active resume, and for
\* every reason there is another student, every one listed has an active
\* resume and the same normalized key
SoundFlag(s, flag) ==
    /\ HasActiveResume(s)
    /\ flag.reasons /= <<>>
    /\ \A i \in DOMAIN flag.reasons :
          LET reason == flag.reasons[i]
          IN /\ flag.flagged_with[reason] /= {}
             /\ \A o \in flag.flagged_with[reason] :
                   /\ o /= s
                   /\ o \in DOMAIN users
                   /\ HasActiveResume(o)
                   /\ ContactKey(reason, users[s]) /= None
                   /\ ContactKey(reason, users[o]) = ContactKey(reason, users[s])

C23_SkillsFilterAll ==
    [][(/\ ranking' /= ranking
        /\ ranking'.status = "recommendations"
        /\ ranking'.query.skills /= None)
       => \A k \in DOMAIN ranking'.items :
             LET p == ranking'.items[k].internship_id
                 wanted == SkillList(ranking'.query.skills.text)
             IN /\ internships[p].is_active = 1
                /\ \A i \in DOMAIN wanted :
                      JsonContains(internships[p].required_skills, wanted[i])]_vars

\* ---------------------------------------------------------------------------
\* Total work experience of a parsed resume
\* ---------------------------------------------------------------------------

DigitValue == [c \in Digits |-> CHOOSE n \in 0..9 :
                  c = <<"0", "1", "2", "3", "4", "5", "6", "7", "8", "9">>[n + 1]]

RECURSIVE DigitsValue(_)
\* The number a string of digits writes
DigitsValue(text) ==
    IF Len(text) = 1 THEN DigitValue[text[1]]
    ELSE 10 * DigitsValue(SubSeq(text, 1, Len(text) - 1))
             + DigitValue[text[Len(text)]]

\* int(text) of a string of digits; anything else raises ValueError
ParseInt(text) ==
    IF text = <<>> \/ \E i \in DOMAIN text : ~IsDigit(text[i]) THEN ValueError
    ELSE [num |-> DigitsValue(text)]

HasDash(text) == \E i \in DOMAIN text : text[i] = "-"

FirstDash(text) == CHOOSE i \in DOMAIN text :
                      text[i] = "-" /\ \A j \in 1..(i - 1) : text[j] /= "-"

\* year, month = text.split('-'); datetime(int(year), int(month), 1)
ParseYearMonth(text) ==
    LET year == ParseInt(SubSeq(text, 1, FirstDash(text) - 1))
        month == ParseInt(SubSeq(text, FirstDash(text) + 1, Len(text)))
    IN IF year = ValueError \/ month = ValueError THEN ValueError
       ELSE IF year.num < 1 \/ month.num < 1 \/ month.num > 12 THEN ValueError
       ELSE [year |-> year.num, month |-> month.num, day |-> 1]

\* datetime(int(text), month, day) of a date given as a bare year
ParseYear(text, month, day) ==
    LET year == ParseInt(text)
    IN IF year = ValueError \/ year.num < 1 THEN ValueError
       ELSE [year |-> year.num, month |-> month, day |-> day]

ParseStart(text) ==
    IF HasDash(text) THEN ParseYearMonth(text) ELSE ParseYear(text, 1, 1)

PresentWords == {<<"p", "r", "e", "s", "e", "n", "t">>,
                 <<"c", "u", "r", "r", "e", "n", "t">>,
                 <<"n", "o", "w">>}

ParseEnd(text, now) ==
    IF Lower(text) \in PresentWords THEN now
    ELSE IF HasDash(text) THEN ParseYearMonth(text)
    ELSE ParseYear(text, 12, 31)

\* Order of two datetimes
DateLeq(a, b) ==
    \/ a.year < b.year
    \/ a.year = b.year /\ a.month < b.month
    \/ a.year = b.year /\ a.month = b.month /\ a.day <= b.day

DateMax(a, b) == IF DateLeq(b, a) THEN a ELSE b

RECURSIVE DateRanges(_, _)
\* The (start, end) pairs of the experiences; an entry that does not parse
\* is skipped
DateRanges(experiences, now) ==
    IF experiences = <<>> THEN <<>>
    ELSE LET exp == Head(experiences)
             start_date == ParseStart(exp.start_date)
             end_date == ParseEnd(exp.end_date, now)
         IN (IF start_date = ValueError \/ end_date = ValueError THEN <<>>
             ELSE << <<start_date, end_date>> >>)
            \o DateRanges(Tail(experiences), now)

RECURSIVE InsertByStart(_, _)
InsertByStart(sorted, range) ==
    IF sorted = <<>> THEN <<range>>
    ELSE IF DateLeq(Head(sorted)[1], range[1])
         THEN <<Head(sorted)>> \o InsertByStart(Tail(sorted), range)
         ELSE <<range>> \o sorted

RECURSIVE SortByStart(_)
\* date_ranges.sort(key=start): a stable sort
SortByStart(date_ranges) ==
    IF date_ranges = <<>> THEN <<>>
    ELSE InsertByStart(SortByStart(SubSeq(date_ranges, 1, Len(date_ranges) - 1)),
                       date_ranges[Len(date_ranges)])

RECURSIVE MergeRanges(_, _)

\* The ranges are kept apart and only sorted
SumOfRanges(merged, date_ranges) == merged \o date_ranges

\* The sweep over the sorted ranges: a range that starts no later than the
\* end of the last merged range is merged into it
MergeRanges(merged, date_ranges) ==
    IF date_ranges = <<>> THEN merged
    ELSE LET last == merged[Len(merged)]
             next == Head(date_ranges)
         IN IF DateLeq(next[1], last[2])
            THEN MergeRanges([merged EXCEPT ![Len(merged)] =
                                 <<last[1], DateMax(last[2], next[2])>>],
                             Tail(date_ranges))
            ELSE MergeRanges(Append(merged, next), Tail(date_ranges))

MonthsOfRange(range) ==
    LET months == (range[2].year - range[1].year) * 12
                      + (range[2].month - range[1].month)
    IN IF months > 0 THEN months ELSE 0

CalculateTotalExperience(experiences, now) ==
    LET date_ranges == SortByStart(DateRanges(experiences, now))
    IN IF date_ranges = <<>> THEN 0
       ELSE LET merged_ranges == MergeRanges(<<date_ranges[1]>>, Tail(date_ranges))
            IN SumSeq([k \in DOMAIN merged_ranges |->
                          MonthsOfRange(merged_ranges[k])])

\* The dates a parsed resume gives, as text
DateTexts == {<<"2", "0", "2", "2", "-", "0", "1">>,
              <<"2", "0", "2", "2", "-", "0", "6">>,
              <<"2", "0", "2", "3", "-", "0", "1">>,
              <<"2", "0", "2", "3", "-", "0", "6">>,
              <<"2", "0", "2", "3">>,
              <<"P", "r", "e", "s", "e", "n", "t">>,
              <<"2", "0", "2", "3", "-", "J", "a", "n">>}

Experiences == [start_date : DateTexts, end_date : DateTexts]

MaxExperiences == 2

ExperienceLists == UNION {[1..n -> Experiences] : n \in 0..MaxExperiences}

\* The dates on which the resume is parsed
Todays == {[year |-> 2023, month |-> 3, day |-> 15],
           [year |-> 2024, month |-> 9, day |-> 15]}

\* The structured data of a resume as the extraction returns it, and the
\* date of the run
ExtractedData ==
    {[status |-> "extracted", experience |-> experiences, now |-> now] :
        experiences \in ExperienceLists, now \in Todays}

InitExperience ==
    /\ users = [s \in Students |-> SeedUser(SeedPhones[s])]
    /\ internships =
         [p \in {1} |->
            [is_active |-> 1,
             required_skills |-> SeedForm.required_skills,
             preferred_skills |-> SeedForm.preferred_skills,
             min_experience |-> [num |-> 0],
             max_experience |-> [num |-> 100],
             required_education |-> None]]
    /\ resumes =
         [rid \in {1} |->
            [student_id |-> 1, is_active |-> 1, is_tailored |-> 0,
             parsed_data |-> [dict |-> SeedDoc.parsed_data],
             embedding_id |-> [ref |-> 1]]]
    /\ resume_collection = [rid \in {1} |-> SeedDoc.vec]
    /\ internship_collection = [p \in {1} |-> SeedForm.vec]
    /\ matches = {}
    /\ runs = [r \in Runs |-> IdleRun]
    /\ hist = NoHist
    /\ ops = 0
    /\ applications = <<>>
    /\ requests = [q \in Requests |-> IdleRequest]
    /\ ranking = NoRanking
    /\ gateway = IdleGateway
    /\ parsed \in ExtractedData
    /\ admins = SeedAdmins

\* The step of the structured extraction that stores the total
ParseResume ==
    /\ parsed.status = "extracted"
    /\ parsed' = [status |-> "parsed",
                  experience |-> parsed.experience,
                  now |-> parsed.now,
                  total_experience_months |->
                      CalculateTotalExperience(parsed.experience, parsed.now)]
    /\ UNCHANGED <<users, internships, resumes, resume_collection,
                   internship_collection, matches, runs, hist, ops,
                   applications, requests, ranking, gateway, admins>>

NextExperience == ParseResume

SpecExperience == InitExperience /\ [][NextExperience]_vars

Span(start_date, end_date) == [start_date |-> start_date, end_date |-> end_date]

\* The spans [2022-01, 2023-01) and [2022-06, 2023-06)
OverlappingSpans ==
    <<Span(<<"2", "0", "2", "2", "-", "0", "1">>, <<"2", "0", "2", "3", "-", "0", "1">>),
      Span(<<"2", "0", "2", "2", "-", "0", "6">>, <<"2", "0", "2", "3", "-", "0", "6">>)>>

\* Every span of the list is given as 'YYYY-MM' dates and does not end before
\* it starts
MonthSpans(experiences, now) ==
    \A i \in DOMAIN experiences :
        /\ HasDash(experiences[i].start_date)
        /\ HasDash(experiences[i].end_date)
        /\ ParseStart(experiences[i].start_date) /= ValueError
        /\ ParseEnd(experiences[i].end_date, now) /= ValueError
        /\ DateLeq(ParseStart(experiences[i].start_date),
                   ParseEnd(experiences[i].end_date, now))

MonthIndex(date) == date.year * 12 + date.month

\* The months covered by the union of the half-open ranges [start, end)
CoveredMonths(experiences, now) ==
    UNION {MonthIndex(ParseStart(experiences[i].start_date)) ..
               (MonthIndex(ParseEnd(experiences[i].end_date, now)) - 1) :
           i \in DOMAIN experiences}

\* C24 (as stated): the total of the spans [2022-01, 2023-01) and
\* [2022-06, 2023-06) is 18 months.
C24_OverlapMergeIs18 ==
    (parsed.status = "parsed" /\ parsed.experience = OverlappingSpans)
    => parsed.total_experience_months = 18

\* C24 (amended): the total is the number of months in the union of the
\* half-open month ranges of the spans, which is 17 months for the spans
\* [2022-01, 2023-01) and [2022-06, 2023-06).
C24_OverlapMergeIsUnion ==
    parsed.status = "parsed" =>
        /\ MonthSpans(parsed.experience, parsed.now)
              => parsed.total_experience_months
                    = Cardinality(CoveredMonths(parsed.experience, parsed.now))
        /\ parsed.experience = OverlappingSpans
              => parsed.total_experience_months = 17

\* The two overlapping spans have been parsed
C24_OverlappingSpansParsed ==
    /\ parsed.status = "parsed"
    /\ parsed.experience = OverlappingSpans
    /\ MonthSpans(parsed.experience, parsed.now)

\* ---------------------------------------------------------------------------
\* Deletion of administrators
\* ---------------------------------------------------------------------------

\* The server processes that take requests. The handler is a coroutine
\* without a suspension point, so a process runs it to its end before it
\* runs another one; the handlers of two processes interleave at the
\* statements they send to the database.
Workers == {"w1", "w2"}

AdminUnchanged ==
    UNCHANGED <<users, internships, resumes, resume_collection,
                internship_collection, matches, runs, hist, ops,
                applications, requests, ranking, gateway, parsed>>

\* Another handler of the same process is between its checks and its commit
HandlerRunning(a) ==
    \E b \in AdminIds \ {a} :
        /\ admins.call[b].pc = "checked"
        /\ admins.call[b].worker = admins.call[a].worker

Answer(a, status) ==
    admins' = [admins EXCEPT !.call[a].pc = "done", !.call[a].status = status]

\* Administrator a sends DELETE /users/{user_id} to process w; the dependency
\* resolves current_user before the body of the handler runs
GetCurrentUser(a, w, user_id) ==
    /\ admins.call[a].pc \in {"idle", "done"}
    /\ a \in admins.ids
    /\ admins' = [admins EXCEPT !.call[a] =
                     [pc |-> "authenticated", worker |-> w, user_id |-> user_id,
                      status |-> "none"]]
    /\ AdminUnchanged

\* The checks of the handler: the user exists, is not the caller, and is not
\* the only administrator
DeleteUserChecks(a) ==
    LET user_id == admins.call[a].user_id
        admin_count == Cardinality(admins.ids)
    IN /\ admins.call[a].pc = "authenticated"
       /\ ~HandlerRunning(a)
       /\ IF user_id \notin admins.ids THEN Answer(a, "404")
          ELSE IF user_id = a THEN Answer(a, "400")
          ELSE IF admin_count <= 1 THEN Answer(a, "400")
          ELSE admins' = [admins EXCEPT !.call[a].pc = "checked"]
       /\ AdminUnchanged

\* db.delete(user); db.commit(): a DELETE that matches no row is not an error
DeleteUserCommit(a) ==
    /\ admins.call[a].pc = "checked"
    /\ admins' = [admins EXCEPT !.ids = @ \ {admins.call[a].user_id},
                                !.call[a].pc = "done",
                                !.call[a].status = "200"]
    /\ AdminUnchanged

NextAdmins ==
    \E a \in AdminIds :
        \/ \E w \in Workers, user_id \in AdminIds : GetCurrentUser(a, w, user_id)
        \/ DeleteUserChecks(a)
        \/ DeleteUserCommit(a)

SpecAdmins == Init /\ [][NextAdmins]_vars

\* C21: after any delete requests of administrators, concurrent requests of
\* different administrators against each other included, at least one
\* administrator remains.
C21_LastAdminKept == admins.ids /= {}

\* C29: ranking the applicants of a posting succeeds for every set of stored
\* applications: an applicant who has no match row and no usable tailored
\* vector does not make the request fail for the other applicants, so a
\* response is an error only when no applicant of the posting can be scored.
C29_ApplicantRankingSucceeds ==
    [][(/\ ranking' /= ranking
        /\ ranking'.status = "Error500"
        /\ ranking'.query.only_applicants)
       => \A k \in DOMAIN applications :
             applications[k].internship_id = ranking'.internship_id
                => FinalScore(applications[k], ranking'.internship_id) = ValueError]_vars
====
